---- MODULE Spec2Model ----
(***************************************************************************)
(* A model of blosc.c (the OpenMP variant of c-blosc): the blocksize       *)
(* planner, the header codec, the block compressor and decompressor, the   *)
(* serial engine, the OpenMP engine, the compress / decompress drivers and *)
(* blosc_getitem.                                                          *)
(*                                                                         *)
(* Buffers are sequences of bytes; the C offset k is the index k+1.        *)
(***************************************************************************)
EXTENDS Integers, Sequences, FiniteSets, Bags, TLC

VARIABLES
  pc,      \* position of the calling thread (which call it is in, and where)
  inp,     \* arguments of the blosc_compress_ctx call
  ctx,     \* struct blosc_context of the call in progress
  dest,    \* the caller's destination buffer of compress: the artifact
  ntb,     \* `ntbytes` of the driver (blosc_compress_context / run_decompression)
  cres,    \* value returned by blosc_compress_ctx
  par,     \* the OpenMP region: shared locals and the team's threads
  dcall,   \* arguments of the blosc_decompress_ctx / blosc_getitem call
  out,     \* the caller's destination buffer of decompress / getitem
  dres,    \* value returned by blosc_decompress_ctx / blosc_getitem
  log,     \* observations of the call: payload offsets read, assertions, faults
  plan,    \* arguments and result of a compute_blocksize call
  amb,     \* the process-wide state of the non-contextual API and its callers
  blk      \* arguments and results of one blosc_c call and of blosc_d on it

vars == <<pc, inp, ctx, dest, ntb, cres, par, dcall, out, dres, log, plan,
          amb, blk>>
\* the variables of the contextual calls
callvars == <<pc, inp, ctx, dest, ntb, cres, par, dcall, out, dres, log, plan,
              blk>>

----------------------------------------------------------------------------
(* Program constants *)

MIN_BUFFERSIZE == 128
MAX_SPLITS == 16
KB == 1024
L1 == 32 * KB

BLOSC_MAX_OVERHEAD == 16
BLOSC_MAX_TYPESIZE == 255
BLOSC_DOSHUFFLE == 1
BLOSC_MEMCPYED == 2

BLOSC_BLOSCLZ == 0
BLOSC_LZ4 == 1
BLOSC_LZ4HC == 2
BLOSC_SNAPPY == 3
BLOSC_ZLIB == 4

----------------------------------------------------------------------------
(* Bounds of the model *)

MaxThreads == 2

\* the reader calls are made on artifacts that declare at most this many blocks
MaxBlocks == 4
\* the application threads that call the non-contextual API
MaxCallers == 2
Callers == 1..MaxCallers
\* the calls of the non-contextual API the applications make in one run
MaxCalls == 2

----------------------------------------------------------------------------
(* Arithmetic helpers *)

\* a > b for two values converted to size_t (a negative value converts to
\* a value above every int32)
UGt(a, b) == IF (a < 0) = (b < 0) THEN a > b ELSE a < 0

\* C integer division and remainder (truncation toward zero), b > 0
CDiv(a, b) == IF a >= 0 THEN a \div b ELSE -((-a) \div b)
CRem(a, b) == a - b * CDiv(a, b)

----------------------------------------------------------------------------
(* compute_blocksize *)

LevelScale(clevel, blocksize) ==
  CASE clevel = 0 -> blocksize \div 16
    [] clevel \in 1..3 -> blocksize \div 8
    [] clevel \in 4..5 -> blocksize \div 4
    [] clevel = 6 -> blocksize \div 2
    [] clevel \in 7..8 -> blocksize * 1
    [] OTHER -> blocksize * 2

\* a forced blocksize taken as given, without the floor of MIN_BUFFERSIZE
StartBlocksizeNoFloor(compressor_code, clevel, typesize, nbytes, forced_blocksize) ==
  IF forced_blocksize # 0 THEN forced_blocksize ELSE nbytes

\* the branch that picks the starting blocksize
StartBlocksize(compressor_code, clevel, typesize, nbytes, forced_blocksize) ==
  IF forced_blocksize # 0
    THEN IF forced_blocksize < MIN_BUFFERSIZE THEN MIN_BUFFERSIZE
                                              ELSE forced_blocksize
  ELSE IF nbytes >= L1 * 4
    THEN LevelScale(clevel,
           IF compressor_code \in {BLOSC_ZLIB, BLOSC_LZ4HC} THEN L1 * 4 * 8
                                                            ELSE L1 * 4)
  ELSE IF nbytes > 16 * 16 /\ typesize \in {2, 4, 8, 16}
    THEN nbytes - (nbytes % (16 * typesize))
  ELSE nbytes

\* rounding of the blocksize down to a multiple of the typesize
RoundToTypesize(blocksize, typesize) ==
  IF blocksize > typesize THEN (blocksize \div typesize) * typesize
                          ELSE blocksize

compute_blocksize(compressor_code, clevel, typesize, nbytes, forced_blocksize) ==
  IF nbytes < typesize THEN 1
  ELSE
    LET b0 == StartBlocksize(compressor_code, clevel, typesize, nbytes,
                             forced_blocksize)
        b1 == IF b0 > nbytes THEN nbytes ELSE b0
        b2 == RoundToTypesize(b1, typesize)
    IN IF compressor_code = BLOSC_BLOSCLZ /\ (b2 \div typesize) > 64 * KB
         THEN 64 * KB * typesize
         ELSE b2

----------------------------------------------------------------------------
(* Bytes and buffers *)

\* storeu_int32: the four little-endian bytes of an int32
storeu_int32(a) ==
  << a % 256, (a \div 256) % 256, (a \div 65536) % 256,
     (a \div 16777216) % 256 >>

\* loadu_int32: the int32 stored at C offset off of buf
loadu_int32(buf, off) ==
  buf[off + 1] + 256 * buf[off + 2] + 65536 * buf[off + 3]
  + 16777216 * (IF buf[off + 4] >= 128 THEN buf[off + 4] - 256
                                       ELSE buf[off + 4])

\* the n bytes of buf from C offset off lie inside the buffer
InBounds(buf, off, n) == off >= 0 /\ n >= 0 /\ off + n <= Len(buf)

\* the n bytes of buf from C offset off
Slice(buf, off, n) == [i \in 1..n |-> buf[off + i]]

\* memcpy of bytes to C offset off of buf (bytes falling outside the
\* buffer are not part of it)
Write(buf, off, bytes) ==
  [i \in 1..Len(buf) |->
     IF off < i /\ i <= off + Len(bytes) THEN bytes[i - off] ELSE buf[i]]

HasFlag(flags, bit) == (flags \div bit) % 2 = 1
SetFlag(flags, bit) == IF HasFlag(flags, bit) THEN flags ELSE flags + bit

----------------------------------------------------------------------------
(* The backend: a run-length coder that meets the backend contract.       *)
(* compress(in, cap) yields the (count, value) pairs of the runs of in, or *)
(* nothing (return value 0) when they do not fit in cap bytes;             *)
(* decompress(in, cap) expands the pairs, or yields nothing (0) when the   *)
(* input is malformed or expands to more than cap bytes.                   *)

\* the positions where the value changes, and those where a run starts (a
\* run holds at most 255 bytes)
ValueStarts(s) == {i \in 1..Len(s) : i = 1 \/ s[i] # s[i - 1]}
RunStarts(s) ==
  LET vs == ValueStarts(s)
  IN {i \in 1..Len(s) :
        (i - (CHOOSE j \in vs : j <= i /\ \A k \in vs : k <= i => k <= j))
          % 255 = 0}

\* the backend gives up with a negative code on input it cannot encode (here:
\* input holding the byte 255)
backend_fails(input) == \E i \in 1..Len(input) : input[i] = 255

backend_compress(input, maxout) ==
  IF 2 * Cardinality(ValueStarts(input)) > maxout THEN << >>
  ELSE
    LET st == RunStarts(input)
        n == Cardinality(st)
        StartOf(m) == CHOOSE i \in st : Cardinality({j \in st : j <= i}) = m
        EndOf(m) == IF m = n THEN Len(input) ELSE StartOf(m + 1) - 1
    IN IF 2 * n > maxout THEN << >>
       ELSE [p \in 1..(2 * n) |->
               IF p % 2 = 1
                 THEN EndOf((p + 1) \div 2) - StartOf((p + 1) \div 2) + 1
                 ELSE input[StartOf(p \div 2)]]

\* the expansion of the pairs lo..hi of s, cut short once it exceeds cap
RECURSIVE RleExpand(_, _, _, _)
RleExpand(s, lo, hi, cap) ==
  IF lo > hi THEN << >>
  ELSE IF lo = hi THEN [j \in 1..s[2 * lo - 1] |-> s[2 * lo]]
  ELSE LET mid == (lo + hi) \div 2
           left == RleExpand(s, lo, mid, cap)
       IN IF Len(left) > cap THEN left
          ELSE left \o RleExpand(s, mid + 1, hi, cap)

backend_decompress(input, maxout) ==
  IF Len(input) % 2 = 1 THEN << >>
  ELSE LET full == RleExpand(input, 1, Len(input) \div 2, maxout)
       IN IF Len(full) > maxout THEN << >> ELSE full

\* snappy_max_compressed_length
snappy_max_compressed_length(n) == 32 + n + n \div 6

----------------------------------------------------------------------------
(* shuffle / unshuffle (shuffle.c) *)

shuffle(typesize, blocksize, s) ==
  LET neblock == blocksize \div typesize
  IN [d \in 1..blocksize |->
        IF d - 1 < neblock * typesize
          THEN s[((d - 1) % neblock) * typesize + ((d - 1) \div neblock) + 1]
          ELSE s[d]]

unshuffle(typesize, blocksize, s) ==
  LET neblock == blocksize \div typesize
  IN [d \in 1..blocksize |->
        IF d - 1 < neblock * typesize
          THEN s[((d - 1) % typesize) * neblock + ((d - 1) \div typesize) + 1]
          ELSE s[d]]

----------------------------------------------------------------------------
(* blosc_c: shuffle and compress a single block *)

\* the number of splits of a block
NSplits(typesize, blocksize, leftoverblock) ==
  IF typesize <= MAX_SPLITS /\ (blocksize \div typesize) >= MIN_BUFFERSIZE
     /\ ~leftoverblock
    THEN typesize ELSE 1

\* the worst-case output length of one split
SplitWorstCase(compcode, neblock) ==
  IF compcode = BLOSC_SNAPPY THEN snappy_max_compressed_length(neblock)
                             ELSE neblock

\* a block compressor that never clamps the budget of a split
NeverClamped(compcode, neblock, ntbytes_current, maxbytes) == FALSE

\* the budget has to be clamped ("avoid buffer overrun")
Clamped(compcode, neblock, ntbytes_current, maxbytes) ==
  ntbytes_current + SplitWorstCase(compcode, neblock) > maxbytes

\* the output budget of one split
SplitMaxout(compcode, neblock, ntbytes_current, maxbytes) ==
  IF Clamped(compcode, neblock, ntbytes_current, maxbytes)
    THEN maxbytes - ntbytes_current
    ELSE SplitWorstCase(compcode, neblock)

\* the raw copy of an incompressible split fits in the budget
RawFits(ntbytes_current, neblock, maxbytes) ==
  ~(ntbytes_current + neblock > maxbytes)

\* a block compressor that stores raw only the splits the backend gave up on
OnlyZeroIncompressible(cbytes, neblock) == cbytes = 0

\* "the compressor has been unable to compress data at all"
Incompressible(cbytes, neblock) == cbytes = 0 \/ cbytes = neblock

\* the loop over the splits; written holds the bytes stored from dest on
RECURSIVE CSplits(_, _, _, _, _, _, _, _)
CSplits(compcode, tmp, neblock, nsplits, split_idx, ntbytes, maxbytes, written) ==
  IF split_idx >= nsplits THEN [ret |-> Len(written), bytes |-> written]
  ELSE
    LET ntbytes_current == ntbytes + Len(written) + 4
        maxout == SplitMaxout(compcode, neblock, ntbytes_current, maxbytes)
        input == Slice(tmp, split_idx * neblock, neblock)
        enc == backend_compress(input, maxout)
        cbytes == IF backend_fails(input) THEN -1 ELSE Len(enc)
    IN IF Clamped(compcode, neblock, ntbytes_current, maxbytes) /\ maxout <= 0
         THEN [ret |-> 0, bytes |-> written]
       ELSE IF cbytes > maxout THEN [ret |-> -1, bytes |-> written]
       ELSE IF cbytes < 0 THEN [ret |-> -2, bytes |-> written]
       ELSE IF Incompressible(cbytes, neblock)
         THEN IF ~RawFits(ntbytes_current, neblock, maxbytes)
                THEN [ret |-> 0, bytes |-> written]
                ELSE CSplits(compcode, tmp, neblock, nsplits, split_idx + 1,
                             ntbytes, maxbytes,
                             written \o storeu_int32(neblock) \o input)
       ELSE CSplits(compcode, tmp, neblock, nsplits, split_idx + 1, ntbytes,
                    maxbytes, written \o storeu_int32(cbytes) \o enc)

\* ret is the value returned, bytes what the call stored from dest on
blosc_c(flags, typesize, compcode, blocksize, leftoverblock, ntbytes, maxbytes, src) ==
  LET tmp == IF HasFlag(flags, BLOSC_DOSHUFFLE) /\ typesize > 1
               THEN shuffle(typesize, blocksize, src) ELSE src
      nsplits == NSplits(typesize, blocksize, leftoverblock)
      neblock == blocksize \div nsplits
  IN CSplits(compcode, tmp, neblock, nsplits, 0, ntbytes, maxbytes, << >>)

----------------------------------------------------------------------------
(* blosc_d: decompress and unshuffle a single block *)

\* the on-wire compressor codes this build can decode
BLOSC_BLOSCLZ_FORMAT == 0
BLOSC_LZ4_FORMAT == 1
BLOSC_SNAPPY_FORMAT == 2
BLOSC_ZLIB_FORMAT == 3
Formats == {BLOSC_BLOSCLZ_FORMAT, BLOSC_LZ4_FORMAT, BLOSC_SNAPPY_FORMAT,
            BLOSC_ZLIB_FORMAT}

\* a read outside the buffer, or a division by zero
Fault == [ret |-> 0, data |-> << >>, fault |-> TRUE]

RECURSIVE DSplits(_, _, _, _, _, _)
DSplits(compcode, buf, cur, neblock, k, acc) ==
  IF k = 0 THEN [ret |-> Len(acc), data |-> acc, fault |-> FALSE]
  ELSE IF ~InBounds(buf, cur, 4) THEN Fault
  ELSE
    LET cbytes == loadu_int32(buf, cur)
    IN IF cbytes = neblock
         THEN IF ~InBounds(buf, cur + 4, neblock) THEN Fault
              ELSE DSplits(compcode, buf, cur + 4 + cbytes, neblock, k - 1,
                           acc \o Slice(buf, cur + 4, neblock))
       ELSE IF compcode \notin Formats
         THEN [ret |-> -5, data |-> acc, fault |-> FALSE]
       ELSE IF ~InBounds(buf, cur + 4, cbytes) THEN Fault
       ELSE
         LET dec == backend_decompress(Slice(buf, cur + 4, cbytes), neblock)
         IN IF Len(dec) # neblock
              THEN [ret |-> -2, data |-> acc, fault |-> FALSE]
              ELSE DSplits(compcode, buf, cur + 4 + cbytes, neblock, k - 1,
                           acc \o dec)

\* ret is the value returned, data the bytes the call left in dest; src is
\* the whole artifact and off the offset of the block's payload in it
blosc_d(flags, typesize, blocksize, leftoverblock, src, off) ==
  IF typesize = 0 THEN Fault
  ELSE
    LET doshuffle == HasFlag(flags, BLOSC_DOSHUFFLE) /\ typesize > 1
        nsplits == NSplits(typesize, blocksize, leftoverblock)
        neblock == blocksize \div nsplits
        r == DSplits(flags \div 32, src, off, neblock, nsplits, << >>)
    IN IF r.fault THEN Fault
       ELSE IF r.ret < 0
         THEN [r EXCEPT !.data = IF doshuffle THEN << >> ELSE r.data]
       ELSE IF doshuffle
         THEN [r EXCEPT !.data =
                 unshuffle(typesize, blocksize,
                           r.data \o [i \in 1..(blocksize - Len(r.data)) |-> 0])]
       ELSE r

----------------------------------------------------------------------------
(* The context and the header *)

BLOSC_VERSION_FORMAT == 2
BLOSC_MAX_BUFFERSIZE == 2147483647 - BLOSC_MAX_OVERHEAD

\* the on-wire code of a compressor, -1 when the build does not have it
CompcodeToFormat(compcode) ==
  CASE compcode = BLOSC_BLOSCLZ -> BLOSC_BLOSCLZ_FORMAT
    [] compcode = BLOSC_LZ4 -> BLOSC_LZ4_FORMAT
    [] compcode = BLOSC_LZ4HC -> BLOSC_LZ4_FORMAT
    [] compcode = BLOSC_SNAPPY -> BLOSC_SNAPPY_FORMAT
    [] compcode = BLOSC_ZLIB -> BLOSC_ZLIB_FORMAT
    [] OTHER -> -1

\* number of blocks and leftover of a buffer (ldiv)
NBlocks(sourcesize, blocksize) ==
  IF CRem(sourcesize, blocksize) > 0 THEN CDiv(sourcesize, blocksize) + 1
                                     ELSE CDiv(sourcesize, blocksize)

\* err is the value returned (1 when there is no error), c the context
initialize_context_compression(clevel, doshuffle, typesize, sourcesize, destsize, compressor, blocksize, numthreads) ==
  LET ts == IF typesize > BLOSC_MAX_TYPESIZE THEN 1 ELSE typesize
      bs == compute_blocksize(compressor, clevel, ts, sourcesize, blocksize)
      err == IF sourcesize > BLOSC_MAX_BUFFERSIZE THEN -1
             ELSE IF clevel < 0 \/ clevel > 9 THEN -10
             ELSE IF doshuffle # 0 /\ doshuffle # 1 THEN -10
             ELSE 1
  IN [err |-> err,
      c |-> [compress |-> TRUE,
             sourcesize |-> sourcesize,
             destsize |-> destsize,
             typesize |-> ts,
             compcode |-> compressor,
             numthreads |-> numthreads,
             clevel |-> clevel,
             blocksize |-> IF err < 0 THEN 0 ELSE bs,
             nblocks |-> IF err < 0 THEN 0 ELSE NBlocks(sourcesize, bs),
             leftover |-> IF err < 0 THEN 0 ELSE CRem(sourcesize, bs),
             num_output_bytes |-> 0]]

\* the flags byte write_compression_header stores
HeaderFlags(c, doshuffle) ==
  LET f0 == IF c.clevel = 0 THEN BLOSC_MEMCPYED ELSE 0
      f1 == IF c.sourcesize < MIN_BUFFERSIZE THEN SetFlag(f0, BLOSC_MEMCPYED)
                                              ELSE f0
      f2 == IF doshuffle = 1 THEN SetFlag(f1, BLOSC_DOSHUFFLE) ELSE f1
  IN (f2 + 32 * CompcodeToFormat(c.compcode)) % 256

\* a header writer that reserves one start entry more than there are blocks
write_header_spare_entry(c, d, doshuffle) ==
  [err |-> IF CompcodeToFormat(c.compcode) < 0 THEN -5 ELSE 1,
   d |-> Write(d, 0,
           << BLOSC_VERSION_FORMAT, 1, HeaderFlags(c, doshuffle),
              c.typesize % 256 >>
           \o storeu_int32(c.sourcesize) \o storeu_int32(c.blocksize)),
   c |-> [c EXCEPT !.num_output_bytes = 16 + 4 * (c.nblocks + 1)]]

\* err is the value returned, d the destination buffer, c the context
write_compression_header(c, d, doshuffle) ==
  IF CompcodeToFormat(c.compcode) < 0
    THEN [err |-> -5, d |-> Write(d, 0, << BLOSC_VERSION_FORMAT >>), c |-> c]
    ELSE [err |-> 1,
          d |-> Write(d, 0,
                  << BLOSC_VERSION_FORMAT, 1, HeaderFlags(c, doshuffle),
                     c.typesize % 256 >>
                  \o storeu_int32(c.sourcesize) \o storeu_int32(c.blocksize)),
          c |-> [c EXCEPT !.num_output_bytes = 16 + 4 * c.nblocks]]

\* *(context->header_flags): the flags byte of the buffer holding the header
Flags(buf) == buf[3]

----------------------------------------------------------------------------
(* serial_blosc *)

LeftoverBlock(c, block_idx) == block_idx = c.nblocks - 1 /\ c.leftover > 0
BSize(c, block_idx) ==
  IF LeftoverBlock(c, block_idx) THEN c.leftover ELSE c.blocksize

\* compression: ret is the value returned, d the destination buffer
RECURSIVE SerialC(_, _, _, _, _)
SerialC(c, src, d, block_idx, ntbytes) ==
  IF block_idx >= c.nblocks THEN [ret |-> ntbytes, d |-> d]
  ELSE
    LET memcpyed == HasFlag(Flags(d), BLOSC_MEMCPYED)
        d1 == IF memcpyed THEN d
              ELSE Write(d, 16 + 4 * block_idx, storeu_int32(ntbytes))
        bsize == BSize(c, block_idx)
        block == Slice(src, block_idx * c.blocksize, bsize)
        r == blosc_c(Flags(d1), c.typesize, c.compcode, bsize,
                     LeftoverBlock(c, block_idx), ntbytes, c.destsize, block)
    IN IF memcpyed
         THEN SerialC(c, src,
                Write(d1, BLOSC_MAX_OVERHEAD + block_idx * c.blocksize, block),
                block_idx + 1, ntbytes + bsize)
       ELSE IF r.ret = 0 THEN [ret |-> 0, d |-> Write(d1, ntbytes, r.bytes)]
       ELSE IF r.ret < 0 THEN [ret |-> r.ret, d |-> Write(d1, ntbytes, r.bytes)]
       ELSE SerialC(c, src, Write(d1, ntbytes, r.bytes), block_idx + 1,
                    ntbytes + r.ret)

\* one block of a decompression: memcpy, or blosc_d at the recorded start;
\* off is the payload offset read (NoOffset for a memcpy)
NoOffset == 0 - 2147483647

DecodeBlock(c, art, block_idx) ==
  LET bsize == BSize(c, block_idx)
  IN IF HasFlag(Flags(art), BLOSC_MEMCPYED)
       THEN IF InBounds(art, BLOSC_MAX_OVERHEAD + block_idx * c.blocksize, bsize)
              THEN [ret |-> bsize, fault |-> FALSE, off |-> NoOffset,
                    data |-> Slice(art, BLOSC_MAX_OVERHEAD
                                        + block_idx * c.blocksize, bsize)]
              ELSE Fault @@ [off |-> NoOffset]
     ELSE IF ~InBounds(art, 16 + 4 * block_idx, 4)
       THEN Fault @@ [off |-> NoOffset]
     ELSE LET off == loadu_int32(art, 16 + 4 * block_idx)
          IN blosc_d(Flags(art), c.typesize, bsize,
                     LeftoverBlock(c, block_idx), art, off) @@ [off |-> off]

\* decompression: ret is the value returned, o the destination buffer, reads
\* the payload offsets handed to blosc_d, fault whether a block faulted
RECURSIVE SerialD(_, _, _, _, _, _)
SerialD(c, art, o, block_idx, ntbytes, reads) ==
  IF block_idx >= c.nblocks
    THEN [ret |-> ntbytes, o |-> o, reads |-> reads, fault |-> FALSE]
  ELSE
    LET r == DecodeBlock(c, art, block_idx)
        o1 == Write(o, block_idx * c.blocksize, r.data)
        reads1 == IF r.off = NoOffset THEN reads ELSE reads \cup {r.off}
    IN IF r.fault
         THEN [ret |-> 0, o |-> o, reads |-> reads1, fault |-> TRUE]
       ELSE IF r.ret < 0
         THEN [ret |-> r.ret, o |-> o1, reads |-> reads1, fault |-> FALSE]
       ELSE SerialD(c, art, o1, block_idx + 1, ntbytes + r.ret, reads1)

\* do_job: the number of threads a job runs with
ThreadCount(c) == IF c.sourcesize <= c.blocksize THEN 1 ELSE c.numthreads

----------------------------------------------------------------------------
(* blosc_getitem *)

\* the loop over the blocks; acc holds the bytes stored from dest on
RECURSIVE GetItemBlocks(_, _, _, _, _, _, _)
GetItemBlocks(c, art, start, stop, j, acc, reads) ==
  IF j >= c.nblocks
    THEN [ret |-> Len(acc), data |-> acc, reads |-> reads, fault |-> FALSE]
  ELSE
    LET startb0 == start * c.typesize - j * c.blocksize
        stopb0 == stop * c.typesize - j * c.blocksize
        startb == IF startb0 < 0 THEN 0 ELSE startb0
        stopb == IF stopb0 > c.blocksize THEN c.blocksize ELSE stopb0
        bsize2 == stopb - startb
        from == BLOSC_MAX_OVERHEAD + j * c.blocksize + startb
        r == DecodeBlock(c, art, j)
        reads1 == IF r.off = NoOffset THEN reads ELSE reads \cup {r.off}
    IN IF startb0 >= c.blocksize \/ stopb0 <= 0
         THEN GetItemBlocks(c, art, start, stop, j + 1, acc, reads)
       ELSE IF HasFlag(Flags(art), BLOSC_MEMCPYED)
         THEN IF ~InBounds(art, from, bsize2)
                THEN [ret |-> 0, data |-> acc, reads |-> reads, fault |-> TRUE]
                ELSE GetItemBlocks(c, art, start, stop, j + 1,
                                   acc \o Slice(art, from, bsize2), reads)
       ELSE IF r.fault \/ (r.ret >= 0 /\ ~InBounds(r.data, startb, bsize2))
         THEN [ret |-> 0, data |-> acc, reads |-> reads1, fault |-> TRUE]
       ELSE IF r.ret < 0
         THEN [ret |-> r.ret, data |-> acc, reads |-> reads1, fault |-> FALSE]
       ELSE GetItemBlocks(c, art, start, stop, j + 1,
                          acc \o Slice(r.data, startb, bsize2), reads1)

\* a reader that always counts a short last block
ReadHeaderSpareBlock(art) ==
  LET nbytes == loadu_int32(art, 4)
      blocksize == loadu_int32(art, 8)
  IN [compress |-> FALSE,
      typesize |-> art[4],
      sourcesize |-> nbytes,
      blocksize |-> blocksize,
      nblocks |-> IF blocksize > 0 THEN CDiv(nbytes, blocksize) + 1 ELSE 0,
      leftover |-> IF blocksize > 0 THEN CRem(nbytes, blocksize) ELSE 0]

\* the header fields blosc_getitem and the decompression driver read
ReadHeader(art) ==
  LET nbytes == loadu_int32(art, 4)
      blocksize == loadu_int32(art, 8)
  IN [compress |-> FALSE,
      typesize |-> art[4],
      sourcesize |-> nbytes,
      blocksize |-> blocksize,
      nblocks |-> IF blocksize > 0 THEN NBlocks(nbytes, blocksize) ELSE 0,
      leftover |-> IF blocksize > 0 THEN CRem(nbytes, blocksize) ELSE 0]

\* the region checks of blosc_getitem
OutOfBounds(start, stop, typesize, nbytes) ==
  start < 0 \/ start * typesize > nbytes \/ stop < 0 \/ stop * typesize > nbytes

blosc_getitem(art, start, nitems) ==
  LET c == ReadHeader(art)
  IN IF c.blocksize <= 0
       THEN [ret |-> 0, data |-> << >>, reads |-> {}, fault |-> TRUE,
             live |-> 2]
     ELSE IF OutOfBounds(start, start + nitems, c.typesize, c.sourcesize)
       THEN [ret |-> -1, data |-> << >>, reads |-> {}, fault |-> FALSE,
             live |-> 2]
     ELSE GetItemBlocks(c, art, start, start + nitems, 0, << >>, {})
          @@ [live |-> 0]

----------------------------------------------------------------------------
(* Inputs *)

\* the source buffers: a constant buffer, and a buffer of equal two-byte
\* elements (no byte equals its neighbour; after a shuffle with typesize 2 it
\* is two runs), and such a buffer with bytes the backend gives up on from
\* offset MIN_BUFFERSIZE on
Patterns == {"const", "alt", "bad"}
Src(pat, n) ==
  [i \in 1..n |->
     IF pat = "const" THEN 7
     ELSE IF pat = "bad" /\ i > MIN_BUFFERSIZE THEN 255
     ELSE IF (i - 1) % 2 = 0 THEN 1 ELSE 2]

CLevels == {0, 5}
Shuffles == {0, 1}
TypeSizes == {1, 2}
\* <<nbytes, forced blocksize>>: no block, one block, two blocks with and
\* without a short last block
Geometries == {<<0, 0>>, <<100, 0>>, <<200, 0>>, <<200, 128>>, <<256, 0>>,
               <<256, 128>>}
DestSizes(n) == {30, n + BLOSC_MAX_OVERHEAD, n + BLOSC_MAX_OVERHEAD + 32}
\* for the one-block buffer also a destination that ends inside the start table
TightDestSizes(g) == IF g = <<200, 0>> THEN {18} ELSE {}
Threads == 1..MaxThreads
\* the room of the reader: exact and one byte short; an empty buffer is read
\* into no room and into spare room
OutCaps(n) == IF n = 0 THEN {0, 8} ELSE {n, n - 1}
Starts == {0, 1, 70}
Counts == {1, 128}

\* a buffer of n bytes the callee has not written
Zeros(n) == [i \in 1..n |-> 0]
Fresh(n) == [i \in 1..n |-> -1]

\* what a fault (a read outside a buffer, a division by zero) may lead to
FaultOutcomes == {"crash", "error"}

----------------------------------------------------------------------------
(* The state machine *)

NoCtx == [compress |-> FALSE, sourcesize |-> 0, destsize |-> 0, typesize |-> 1,
          compcode |-> 0, numthreads |-> 1, clevel |-> 0, blocksize |-> 1,
          nblocks |-> 0, leftover |-> 0, num_output_bytes |-> 0]
NoInp == [clevel |-> 0, doshuffle |-> 0, typesize |-> 1, nbytes |-> 0,
          pat |-> "const", destsize |-> 0, blocksize |-> 0, numthreads |-> 1]
NoPar == [active |-> FALSE, giveup |-> 1, nob |-> 0, w |-> EmptyBag,
          hard |-> FALSE, plain |-> {}, live |-> 0, touch |-> EmptyBag,
          maxdone |-> -1, oob |-> FALSE]
NoCall == [destsize |-> 0, numthreads |-> 1, start |-> 0, nitems |-> 0]
NoLog == [reads |-> {}, assert_failed |-> FALSE, fault |-> FALSE,
          corrupted |-> FALSE, fallback |-> FALSE, hard |-> FALSE,
          plain |-> {}, live |-> 0, oob |-> FALSE]
NoPlan == [compcode |-> 0, clevel |-> 0, typesize |-> 1, nbytes |-> 0,
           forced |-> 0, blocksize |-> 0, done |-> FALSE]
\* the statics of the non-contextual API as the program starts, and its
\* callers: mutex is the holder of global_comp_mutex (0: nobody), writer the
\* caller whose compress call the global context's fields belong to, unlocked
\* the entry points that touched the global context without the mutex, uninit
\* those that touched it while g_global_context did not point to a context,
\* reinit that an entry point ran its blosc_init on an initialised library
NoCaller == [pc |-> "idle", api |-> "none", a |-> [destsize |-> 0], ret |-> 0,
             c |-> NoCtx, d |-> << >>]
NoAmb == [g_initlib |-> 0, g_global_context |-> "null", ctx |-> NoCtx,
          g_force_blocksize |-> 0, mutex |-> 0, writer |-> 0,
          calls |-> 0, unlocked |-> {}, uninit |-> {}, reinit |-> FALSE,
          fault |-> FALSE, crashed |-> FALSE,
          caller |-> [t \in Callers |-> NoCaller]]
\* no block call yet
NoBlk == [pc |-> "none", typesize |-> 1, nbytes |-> 0, doshuffle |-> 0,
          pat |-> "const", flags |-> 0, block_idx |-> 0, bsize |-> 0,
          leftoverblock |-> FALSE, ntbytes |-> 0, maxbytes |-> 0,
          ebsize |-> 0, src |-> << >>, ret |-> 0, bytes |-> << >>,
          dret |-> 0, data |-> << >>]

Init ==
  /\ pc = "idle"
  /\ inp = NoInp
  /\ ctx = NoCtx
  /\ dest = << >>
  /\ ntb = 0
  /\ cres = 0
  /\ par = NoPar
  /\ dcall = NoCall
  /\ out = << >>
  /\ dres = 0
  /\ log = NoLog
  /\ plan = NoPlan
  /\ amb = NoAmb
  /\ blk = NoBlk

\* a store of n > 0 bytes at C offset off reaches past a buffer of size bytes
Past(size, off, n) == n > 0 /\ off + n > size

\* the memory that follows a destination buffer, as far as a compression of
\* the context's source can reach: bytes nobody has written
Beyond(c) ==
  Fresh(BLOSC_MAX_OVERHEAD + c.sourcesize + (4 + 4 * c.typesize) * c.nblocks)
\* some byte after the first size bytes of buf has been written
WrittenPast(buf, size) == \E i \in (size + 1)..Len(buf) : buf[i] # -1

\* the tail of blosc_compress_context: patch cbytes, assert, return
CompressReturn(d, ntbytes) ==
  /\ dest' = Write(d, 12, storeu_int32(ntbytes))
  /\ cres' = ntbytes
  /\ ntb' = ntbytes
  /\ log' = [log EXCEPT !.assert_failed = ~(ntbytes <= ctx.destsize)]
  /\ pc' = "compressed"

\* blosc_compress_ctx up to the first do_job
compress_ctx_call ==
  /\ pc = "idle"
  /\ \E clevel \in CLevels, doshuffle \in Shuffles, typesize \in TypeSizes,
        g \in Geometries, pat \in Patterns, numthreads \in Threads :
       \E destsize \in DestSizes(g[1]) \cup TightDestSizes(g) :
         LET nbytes == g[1]
             blocksize == g[2]
             i == initialize_context_compression(clevel, doshuffle, typesize,
                    nbytes, destsize, BLOSC_BLOSCLZ, blocksize, numthreads)
             h == write_compression_header(i.c, Zeros(destsize), doshuffle)
         IN /\ inp' = [clevel |-> clevel, doshuffle |-> doshuffle,
                       typesize |-> typesize, nbytes |-> nbytes, pat |-> pat,
                       destsize |-> destsize, blocksize |-> blocksize,
                       numthreads |-> numthreads]
            /\ plan' = [compcode |-> BLOSC_BLOSCLZ, clevel |-> clevel,
                        typesize |-> i.c.typesize, nbytes |-> nbytes,
                        forced |-> blocksize, blocksize |-> i.c.blocksize,
                        done |-> TRUE]
            /\ ctx' = h.c
            /\ dest' = h.d
            /\ cres' = IF i.err < 0 THEN i.err ELSE IF h.err < 0 THEN h.err ELSE 0
            /\ pc' = IF i.err < 0 \/ h.err < 0 THEN "compressed"
                     ELSE IF HasFlag(Flags(h.d), BLOSC_MEMCPYED) THEN "c_memcpy"
                     ELSE "c_first"
            /\ log' = [log EXCEPT !.oob = i.err >= 0
                                          /\ Past(destsize, 0, BLOSC_MAX_OVERHEAD)]
  /\ UNCHANGED <<ntb, par, dcall, out, dres>>
  /\ UNCHANGED <<amb, blk>>

JobPcs == {"c_first", "c_mjob", "d_job"}
JobReturn(p) == CASE p = "c_first" -> "c_first_ret"
                  [] p = "c_mjob" -> "c_mjob_ret"
                  [] OTHER -> "d_job_ret"

\* do_job with one thread: serial_blosc
do_job_serial ==
  /\ pc \in JobPcs
  /\ ~par.active
  /\ ThreadCount(ctx) = 1
  /\ IF ctx.compress
       THEN LET r == SerialC(ctx, Src(inp.pat, inp.nbytes),
                             dest \o Beyond(ctx), 0, ctx.num_output_bytes)
            IN /\ dest' = SubSeq(r.d, 1, Len(dest))
               /\ ntb' = r.ret
               /\ pc' = JobReturn(pc)
               /\ log' = [log EXCEPT
                            !.oob = @ \/ WrittenPast(r.d, Len(dest))]
               /\ UNCHANGED out
       ELSE \E fo \in FaultOutcomes :
              LET r == SerialD(ctx, dest, out, 0, ctx.num_output_bytes,
                               log.reads)
              IN /\ out' = r.o
                 /\ ntb' = IF r.fault THEN -2 ELSE r.ret
                 /\ log' = [log EXCEPT !.reads = r.reads, !.fault = r.fault]
                 /\ pc' = IF r.fault /\ fo = "crash" THEN "crashed"
                                                     ELSE JobReturn(pc)
                 /\ UNCHANGED dest
  /\ UNCHANGED <<inp, ctx, cres, par, dcall, dres, plan>>
  /\ UNCHANGED <<amb, blk>>

\* blosc_compress_context after the first pass
compress_after_first ==
  /\ pc = "c_first_ret"
  /\ IF ntb < 0
       THEN /\ cres' = -1
            /\ pc' = "compressed"
            /\ UNCHANGED <<dest, ntb, log>>
     ELSE IF ntb = 0 /\ ctx.sourcesize + BLOSC_MAX_OVERHEAD <= ctx.destsize
       THEN /\ dest' = Write(dest, 2, << SetFlag(Flags(dest), BLOSC_MEMCPYED) >>)
            /\ pc' = "c_memcpy"
            /\ log' = [log EXCEPT !.fallback = TRUE]
            /\ UNCHANGED <<cres, ntb>>
     ELSE IF HasFlag(Flags(dest), BLOSC_MEMCPYED)
       THEN /\ pc' = "c_memcpy"
            /\ UNCHANGED <<dest, cres, ntb, log>>
     ELSE CompressReturn(dest, ntb)
  /\ UNCHANGED <<inp, ctx, par, dcall, out, dres, plan>>
  /\ UNCHANGED <<amb, blk>>

\* blosc_compress_context with the memcpy flag set
compress_memcpy ==
  /\ pc = "c_memcpy"
  /\ IF ctx.sourcesize + BLOSC_MAX_OVERHEAD > ctx.destsize
       THEN CompressReturn(dest, 0) /\ UNCHANGED ctx
     ELSE IF ctx.sourcesize % L1 = 0 \/ ctx.numthreads > 1
       THEN /\ ctx' = [ctx EXCEPT !.num_output_bytes = BLOSC_MAX_OVERHEAD]
            /\ pc' = "c_mjob"
            /\ UNCHANGED <<dest, cres, ntb, log>>
     ELSE /\ CompressReturn(
               Write(dest, BLOSC_MAX_OVERHEAD, Src(inp.pat, inp.nbytes)),
               ctx.sourcesize + BLOSC_MAX_OVERHEAD)
          /\ UNCHANGED ctx
  /\ UNCHANGED <<inp, par, dcall, out, dres, plan>>
  /\ UNCHANGED <<amb, blk>>

\* blosc_compress_context after the memcpy job
compress_after_memcpy_job ==
  /\ pc = "c_mjob_ret"
  /\ IF ntb < 0
       THEN /\ cres' = -1
            /\ pc' = "compressed"
            /\ UNCHANGED <<dest, ntb, log>>
       ELSE CompressReturn(dest, ntb)
  /\ UNCHANGED <<inp, ctx, par, dcall, out, dres, plan>>
  /\ UNCHANGED <<amb, blk>>

\* blosc_compress_ctx as one thread runs it (do_job takes serial_blosc): ret
\* is the value returned, d the destination buffer
SerialCompress(i) ==
  LET ini == initialize_context_compression(i.clevel, i.doshuffle, i.typesize,
               i.nbytes, i.destsize, BLOSC_BLOSCLZ, i.blocksize, 1)
      h == write_compression_header(ini.c, Zeros(i.destsize), i.doshuffle)
      c == h.c
      src == Src(i.pat, i.nbytes)
      first == SerialC(c, src, h.d, 0, c.num_output_bytes)
      Return(d, ntbytes) ==
        [ret |-> ntbytes, d |-> Write(d, 12, storeu_int32(ntbytes))]
      Memcpyed(d) ==
        IF c.sourcesize + BLOSC_MAX_OVERHEAD > c.destsize THEN Return(d, 0)
        ELSE IF c.sourcesize % L1 = 0
          THEN LET job == SerialC(c, src, d, 0, BLOSC_MAX_OVERHEAD)
               IN Return(job.d, job.ret)
        ELSE Return(Write(d, BLOSC_MAX_OVERHEAD, src),
                    c.sourcesize + BLOSC_MAX_OVERHEAD)
  IN IF ini.err < 0 THEN [ret |-> ini.err, d |-> h.d]
     ELSE IF h.err < 0 THEN [ret |-> h.err, d |-> h.d]
     ELSE IF HasFlag(Flags(h.d), BLOSC_MEMCPYED) THEN Memcpyed(h.d)
     ELSE IF first.ret < 0 THEN [ret |-> -1, d |-> first.d]
     ELSE IF first.ret = 0
             /\ c.sourcesize + BLOSC_MAX_OVERHEAD <= c.destsize
       THEN Memcpyed(Write(first.d, 2,
                           << SetFlag(Flags(first.d), BLOSC_MEMCPYED) >>))
     ELSE Return(first.d, first.ret)

\* the same check with the capacity taken one byte too large
NotEnoughSpaceOffByOne(sourcesize, destsize) ==
  UGt(sourcesize, destsize + 1)

\* the check that the destination can hold the declared nbytes
NotEnoughSpace(sourcesize, destsize) ==
  UGt(sourcesize, destsize)

\* the tail of blosc_run_decompression_with_context: assert, return
DecompressReturn(ntbytes) ==
  /\ dres' = ntbytes
  /\ ntb' = ntbytes
  /\ pc' = "decompressed"

\* blosc_decompress_ctx up to do_job
decompress_ctx_call ==
  /\ pc = "compressed"
  /\ cres > 0
  /\ ReadHeader(dest).nblocks <= MaxBlocks
  /\ \E destsize \in OutCaps(inp.nbytes), numthreads \in Threads,
        fo \in FaultOutcomes :
       LET h == ReadHeader(dest)
           c == h @@ [destsize |-> destsize, numthreads |-> numthreads,
                      num_output_bytes |-> 0, compcode |-> 0, clevel |-> 0]
           direct == InBounds(dest, BLOSC_MAX_OVERHEAD, h.sourcesize)
       IN /\ dcall' = [NoCall EXCEPT !.destsize = destsize,
                                     !.numthreads = numthreads]
          /\ out' = IF h.blocksize > 0
                       /\ ~NotEnoughSpace(h.sourcesize, destsize)
                       /\ HasFlag(Flags(dest), BLOSC_MEMCPYED)
                       /\ ~(h.sourcesize % L1 = 0 \/ numthreads > 1)
                       /\ direct
                      THEN Write(Fresh(destsize), 0,
                                 Slice(dest, BLOSC_MAX_OVERHEAD, h.sourcesize))
                      ELSE Fresh(destsize)
          /\ ctx' = c
          /\ IF h.blocksize = 0
               THEN \* ldiv by zero
                    /\ pc' = "crashed"
                    /\ log' = [log EXCEPT !.fault = TRUE]
                    /\ UNCHANGED <<dres, ntb>>
             ELSE IF NotEnoughSpace(h.sourcesize, destsize)
               THEN DecompressReturn(-1) /\ UNCHANGED log
             ELSE IF h.blocksize < 0
               THEN \* a block count that is no count
                    /\ pc' = "crashed"
                    /\ log' = [log EXCEPT !.fault = TRUE]
                    /\ UNCHANGED <<dres, ntb>>
             ELSE IF HasFlag(Flags(dest), BLOSC_MEMCPYED)
                     /\ ~(h.sourcesize % L1 = 0 \/ numthreads > 1)
               THEN IF direct
                      THEN DecompressReturn(h.sourcesize) /\ UNCHANGED log
                      ELSE /\ log' = [log EXCEPT !.fault = TRUE]
                           /\ IF fo = "crash"
                                THEN pc' = "crashed" /\ UNCHANGED <<dres, ntb>>
                                ELSE DecompressReturn(h.sourcesize)
             ELSE /\ pc' = "d_job"
                  /\ UNCHANGED <<dres, ntb, log>>
  /\ UNCHANGED <<inp, dest, cres, par, plan>>
  /\ UNCHANGED <<amb, blk>>

\* blosc_run_decompression_with_context after do_job
decompress_after_job ==
  /\ pc = "d_job_ret"
  /\ IF ntb < 0
       THEN DecompressReturn(-1) /\ UNCHANGED log
       ELSE /\ DecompressReturn(ntb)
            /\ log' = [log EXCEPT !.assert_failed =
                                     ~(ntb <= dcall.destsize)]
  /\ UNCHANGED <<inp, ctx, dest, cres, par, dcall, out, plan>>
  /\ UNCHANGED <<amb, blk>>

\* blosc_getitem
getitem_call ==
  /\ pc = "compressed"
  /\ cres > 0
  /\ ReadHeader(dest).nblocks <= MaxBlocks
  /\ \E start \in Starts, nitems \in Counts, fo \in FaultOutcomes :
       LET r == blosc_getitem(dest, start, nitems)
       IN /\ dcall' = [NoCall EXCEPT !.start = start, !.nitems = nitems]
          /\ out' = Write(Fresh(nitems * inp.typesize), 0, r.data)
          /\ log' = [log EXCEPT !.reads = r.reads, !.fault = r.fault,
                                !.live = @ + r.live]
          /\ dres' = IF r.fault THEN -2 ELSE r.ret
          /\ pc' = IF r.fault /\ fo = "crash" THEN "crashed" ELSE "gotitem"
  /\ UNCHANGED <<inp, ctx, dest, ntb, cres, par, plan>>
  /\ UNCHANGED <<amb, blk>>

\* the artifact is damaged on its way to the reader: one entry of the start
\* table is replaced
CorruptStarts(art) == {0, loadu_int32(art, 12)}
HeaderIntact(art) ==
  Slice(art, 0, 12) = Slice(write_compression_header(
                               [ctx EXCEPT !.compress = TRUE],
                               art, inp.doshuffle).d, 0, 12)
corrupt_bstart ==
  /\ pc = "compressed"
  /\ cres > 0
  /\ ~log.corrupted
  /\ ~HasFlag(Flags(dest), BLOSC_MEMCPYED)
  /\ HeaderIntact(dest)
  /\ \E i \in 0..(ctx.nblocks - 1), v \in CorruptStarts(dest) :
       /\ InBounds(dest, v, 4)
       /\ dest' = Write(dest, 16 + 4 * i, storeu_int32(v))
  /\ log' = [log EXCEPT !.corrupted = TRUE]
  /\ UNCHANGED <<pc, inp, ctx, ntb, cres, par, dcall, out, dres, plan>>
  /\ UNCHANGED <<amb, blk>>

----------------------------------------------------------------------------
(* openmp_blosc.  The loops are `parallel for` constructs nested in the    *)
(* parallel region: every thread of the region's team starts a team of its *)
(* own for the loop (of one thread, nested parallelism being off), and so  *)
(* runs every iteration; `ordered` orders the iterations of one such team. *)

EbSize(c) == c.blocksize + c.typesize * 4

NewThread == [pc |-> "loop", block_idx |-> 0, ntbytes |-> 0, cbytes |-> 0,
              ntdest |-> 0, tmp2 |-> << >>]

\* the next iteration of the loop
NextBlock(w) == [w EXCEPT !.block_idx = w.block_idx + 1, !.pc = "loop",
                          !.cbytes = 0, !.ntdest = 0, !.tmp2 = << >>]

\* the threads of the region run the same code on private variables: the
\* region's team is the bag of the threads' private states
Replace(team, w, w2) == (team (-) SetToBag({w})) (+) SetToBag({w2})

\* do_job with more than one thread: the parallel region starts
do_job_openmp ==
  /\ pc \in JobPcs
  /\ ~par.active
  /\ ThreadCount(ctx) > 1
  /\ par' = [NoPar EXCEPT !.active = TRUE,
                          !.w = [w \in {NewThread} |-> ThreadCount(ctx)],
                          !.live = 2 * ThreadCount(ctx)]
  /\ UNCHANGED <<pc, inp, ctx, dest, ntb, cres, dcall, out, dres, log, plan>>
  /\ UNCHANGED <<amb, blk>>

\* one iteration of the compression loop, up to the ordered section
omp_compress_block(w) ==
  /\ par.active /\ ctx.compress
  /\ BagIn(w, par.w) /\ w.pc = "loop"
  /\ w.block_idx < ctx.nblocks
  /\ LET bsize == BSize(ctx, w.block_idx)
         block == Slice(Src(inp.pat, inp.nbytes),
                        w.block_idx * ctx.blocksize, bsize)
         r == blosc_c(Flags(dest), ctx.typesize, ctx.compcode, bsize,
                      LeftoverBlock(ctx, w.block_idx), 0, EbSize(ctx), block)
     IN IF par.giveup <= 0
          THEN /\ par' = [par EXCEPT !.w = Replace(@, w, NextBlock(w))]
               /\ UNCHANGED dest
        ELSE IF HasFlag(Flags(dest), BLOSC_MEMCPYED)
          THEN /\ dest' = Write(dest, BLOSC_MAX_OVERHEAD
                                      + w.block_idx * ctx.blocksize, block)
               /\ par' = [par EXCEPT
                            !.oob = @ \/ Past(ctx.destsize, BLOSC_MAX_OVERHEAD
                                       + w.block_idx * ctx.blocksize, bsize),
                            !.w = Replace(@, w,
                            [NextBlock(w) EXCEPT !.ntbytes = w.ntbytes + bsize])]
        ELSE IF r.ret <= 0
          THEN /\ par' = [par EXCEPT !.giveup = r.ret,
                                     !.hard = @ \/ r.ret < 0,
                                     !.plain = @ \cup {1206},
                                     !.w = Replace(@, w, NextBlock(w))]
               /\ UNCHANGED dest
        ELSE /\ par' = [par EXCEPT !.w = Replace(@, w,
                              [w EXCEPT !.pc = "ord_read", !.cbytes = r.ret,
                                        !.tmp2 = r.bytes])]
             /\ UNCHANGED dest
  /\ UNCHANGED <<pc, inp, ctx, ntb, cres, dcall, out, dres, log, plan>>
  /\ UNCHANGED <<amb, blk>>

\* the ordered section: read the cursor and store the block start
omp_ordered_read(w) ==
  /\ par.active
  /\ BagIn(w, par.w) /\ w.pc = "ord_read"
  /\ par' = [par EXCEPT !.w = Replace(@, w, [w EXCEPT !.ntdest = par.nob,
                                                    !.pc = "ord_update"]),
                        !.touch = @ (+) SetToBag({w.block_idx}),
                        !.oob = @ \/ Past(ctx.destsize, 16 + 4 * w.block_idx, 4)]
  /\ dest' = Write(dest, 16 + 4 * w.block_idx, storeu_int32(par.nob))
  /\ UNCHANGED <<pc, inp, ctx, ntb, cres, dcall, out, dres, log, plan>>
  /\ UNCHANGED <<amb, blk>>

\* the ordered section: give up, or advance the cursor
omp_ordered_update(w) ==
  /\ par.active
  /\ BagIn(w, par.w) /\ w.pc = "ord_update"
  /\ LET done == [par EXCEPT
                     !.maxdone = IF w.block_idx > @ THEN w.block_idx ELSE @,
                     !.w = Replace(@, w, [w EXCEPT !.pc = "copy"])]
     IN IF w.cbytes = 0 \/ w.ntdest + w.cbytes > ctx.destsize
          THEN par' = [done EXCEPT !.giveup = 0]
          ELSE par' = [done EXCEPT !.nob = par.nob + w.cbytes]
  /\ UNCHANGED <<pc, inp, ctx, dest, ntb, cres, dcall, out, dres, log, plan>>
  /\ UNCHANGED <<amb, blk>>

\* after the ordered section: copy the block to the destination
omp_copy(w) ==
  /\ par.active
  /\ BagIn(w, par.w) /\ w.pc = "copy"
  /\ dest' = IF par.giveup > 0
               THEN Write(dest, w.ntdest, w.tmp2) ELSE dest
  /\ par' = [par EXCEPT !.oob = @ \/ (par.giveup > 0 /\
                                 Past(ctx.destsize, w.ntdest, Len(w.tmp2))),
                        !.w = Replace(@, w, NextBlock(w))]
  /\ UNCHANGED <<pc, inp, ctx, ntb, cres, dcall, out, dres, log, plan>>
  /\ UNCHANGED <<amb, blk>>

\* the bstarts entries loaded so far, after the iteration for block_idx
Loaded(touch, block_idx) ==
  IF HasFlag(Flags(dest), BLOSC_MEMCPYED) THEN touch
  ELSE touch (+) SetToBag({block_idx})

\* one iteration of the decompression loop
omp_decompress_block(w) ==
  /\ par.active /\ ~ctx.compress
  /\ BagIn(w, par.w) /\ w.pc = "loop"
  /\ w.block_idx < ctx.nblocks
  /\ \E fo \in FaultOutcomes :
       LET r == DecodeBlock(ctx, dest, w.block_idx)
           ret == IF r.fault THEN -2 ELSE r.ret
       IN IF par.giveup <= 0
            THEN /\ par' = [par EXCEPT !.w = Replace(@, w, NextBlock(w))]
                 /\ UNCHANGED <<pc, out, log>>
            ELSE /\ out' = Write(out, w.block_idx * ctx.blocksize, r.data)
                 /\ log' = [log EXCEPT
                              !.reads = IF r.off = NoOffset THEN @
                                        ELSE @ \cup {r.off},
                              !.fault = @ \/ r.fault]
                 /\ pc' = IF r.fault /\ fo = "crash" THEN "crashed" ELSE pc
                 /\ par' = IF ret < 0
                             THEN [par EXCEPT !.giveup = ret,
                                              !.plain = @ \cup {1280},
                                              !.touch = Loaded(@, w.block_idx),
                                              !.w = Replace(@, w, NextBlock(w))]
                             ELSE [par EXCEPT !.touch = Loaded(@, w.block_idx),
                                              !.w = Replace(@, w,
                                     [NextBlock(w) EXCEPT
                                        !.ntbytes = w.ntbytes + ret])]
  /\ UNCHANGED <<inp, ctx, dest, ntb, cres, dcall, dres, plan>>
  /\ UNCHANGED <<amb, blk>>

\* the end of the region for one thread: free the buffers, add up the bytes
omp_thread_end(w) ==
  /\ par.active
  /\ BagIn(w, par.w) /\ w.pc = "loop"
  /\ w.block_idx >= ctx.nblocks
  /\ LET memcpyed == HasFlag(Flags(dest), BLOSC_MEMCPYED)
         freed == [par EXCEPT !.live = @ - 2,
                              !.w = Replace(@, w, [w EXCEPT !.pc = "done"])]
     IN IF (~ctx.compress \/ memcpyed) /\ par.giveup > 0
          THEN par' = [freed EXCEPT !.nob = par.nob + w.ntbytes]
          ELSE par' = freed
  /\ UNCHANGED <<pc, inp, ctx, dest, ntb, cres, dcall, out, dres, log, plan>>
  /\ UNCHANGED <<amb, blk>>

\* the end of the region: openmp_blosc returns
omp_join ==
  /\ par.active
  /\ pc \in JobPcs
  /\ \A w \in BagToSet(par.w) : w.pc = "done"
  /\ ntb' = IF par.giveup <= 0 THEN par.giveup ELSE par.nob
  /\ log' = [log EXCEPT !.hard = @ \/ par.hard,
                        !.plain = @ \cup par.plain,
                        !.live = @ + par.live,
                        !.oob = @ \/ par.oob]
  /\ par' = NoPar
  /\ pc' = JobReturn(pc)
  /\ UNCHANGED <<inp, ctx, dest, cres, dcall, out, dres, plan>>
  /\ UNCHANGED <<amb, blk>>

----------------------------------------------------------------------------
(* The specification of the calls *)

Next ==
  \/ compress_ctx_call
  \/ do_job_serial
  \/ do_job_openmp
  \/ \E w \in BagToSet(par.w) : omp_compress_block(w)
  \/ \E w \in BagToSet(par.w) : omp_ordered_read(w)
  \/ \E w \in BagToSet(par.w) : omp_ordered_update(w)
  \/ \E w \in BagToSet(par.w) : omp_copy(w)
  \/ \E w \in BagToSet(par.w) : omp_decompress_block(w)
  \/ \E w \in BagToSet(par.w) : omp_thread_end(w)
  \/ omp_join
  \/ compress_after_first
  \/ compress_memcpy
  \/ compress_after_memcpy_job
  \/ decompress_ctx_call
  \/ decompress_after_job
  \/ getitem_call
  \/ corrupt_bstart

Spec == Init /\ [][Next]_vars

----------------------------------------------------------------------------
(* The specification of the blocksize planner: one compute_blocksize call *)

PlanCodes == {BLOSC_BLOSCLZ, BLOSC_LZ4, BLOSC_LZ4HC, BLOSC_SNAPPY, BLOSC_ZLIB}
PlanLevels == 0..9
PlanTypeSizes == {1, 2, 3, 4, 8, 16, 17, 200, 255}
PlanNBytes == {0, 1, 100, 128, 255, 256, 257, 300, 1000, 4096, 131071, 131072,
               200000, 5000000, 20000000}
PlanForced == {0, 1, 128, 130, 256, 1000, 100000}

InitPlan ==
  /\ pc = "plan"
  /\ inp = NoInp
  /\ ctx = NoCtx
  /\ dest = << >>
  /\ ntb = 0
  /\ cres = 0
  /\ par = NoPar
  /\ dcall = NoCall
  /\ out = << >>
  /\ dres = 0
  /\ log = NoLog
  /\ plan = NoPlan
  /\ amb = NoAmb
  /\ blk = NoBlk

plan_call ==
  /\ pc = "plan"
  /\ ~plan.done
  /\ \E compcode \in PlanCodes, clevel \in PlanLevels,
        typesize \in PlanTypeSizes, nbytes \in PlanNBytes,
        forced \in PlanForced :
       plan' = [compcode |-> compcode, clevel |-> clevel,
                typesize |-> typesize, nbytes |-> nbytes, forced |-> forced,
                blocksize |-> compute_blocksize(compcode, clevel, typesize,
                                                nbytes, forced),
                done |-> TRUE]
  /\ UNCHANGED <<pc, inp, ctx, dest, ntb, cres, par, dcall, out, dres, log>>
  /\ UNCHANGED <<amb, blk>>

NextPlan == plan_call

SpecPlan == InitPlan /\ [][NextPlan]_vars

----------------------------------------------------------------------------
(* The block calls: blosc_c on one block of a buffer, blosc_d on its result *)

\* the buffers: constant, no byte equal to its neighbour, and runs of two
\* equal bytes (which the backend encodes in as many bytes as it reads)
BlockPatterns == {"const", "alt", "pairs"}
BlockSrc(pat, n) ==
  [i \in 1..n |->
     IF pat = "const" THEN 7
     ELSE IF pat = "alt" THEN (IF (i - 1) % 2 = 0 THEN 1 ELSE 2)
     ELSE 1 + (((i - 1) \div 2) % 2)]
BlockTypeSizes == {1, 2, 3}
\* <<nbytes, forced blocksize>>
BlockGeometries == {<<200, 0>>, <<201, 0>>, <<256, 0>>, <<256, 128>>,
                    <<258, 128>>}
\* <<ntbytes, maxbytes>> of the call: the parallel engine compresses into a
\* tmp2 of ebsize bytes, the serial engine at its cursor into a destination
\* of destsize bytes
BlockBudgets(c) ==
  {<<0, EbSize(c)>>}
  \cup {<<BLOSC_MAX_OVERHEAD + 4 * c.nblocks, destsize>> :
          destsize \in {18, 30, 160, c.sourcesize + BLOSC_MAX_OVERHEAD}}

InitBlock ==
  /\ pc = "block"
  /\ inp = NoInp
  /\ ctx = NoCtx
  /\ dest = << >>
  /\ ntb = 0
  /\ cres = 0
  /\ par = NoPar
  /\ dcall = NoCall
  /\ out = << >>
  /\ dres = 0
  /\ log = NoLog
  /\ plan = NoPlan
  /\ amb = NoAmb
  /\ blk = NoBlk

\* one blosc_c call of a compression of nbytes bytes: block block_idx
block_c ==
  /\ pc = "block"
  /\ blk.pc = "none"
  /\ \E typesize \in BlockTypeSizes, doshuffle \in Shuffles,
        g \in BlockGeometries, pat \in BlockPatterns :
       LET c == initialize_context_compression(5, doshuffle, typesize, g[1],
                  g[1] + BLOSC_MAX_OVERHEAD, BLOSC_BLOSCLZ, g[2], 1).c
           flags == HeaderFlags(c, doshuffle)
       IN \E block_idx \in 0..(c.nblocks - 1), budget \in BlockBudgets(c) :
            LET bsize == BSize(c, block_idx)
                src == Slice(BlockSrc(pat, g[1]), block_idx * c.blocksize,
                             bsize)
                r == blosc_c(flags, c.typesize, c.compcode, bsize,
                             LeftoverBlock(c, block_idx), budget[1],
                             budget[2], src)
            IN blk' = [pc |-> "compressed", typesize |-> c.typesize,
                       nbytes |-> g[1], doshuffle |-> doshuffle, pat |-> pat,
                       flags |-> flags, block_idx |-> block_idx,
                       bsize |-> bsize,
                       leftoverblock |-> LeftoverBlock(c, block_idx),
                       ntbytes |-> budget[1], maxbytes |-> budget[2],
                       ebsize |-> EbSize(c), src |-> src, ret |-> r.ret,
                       bytes |-> r.bytes, dret |-> 0, data |-> << >>]
  /\ UNCHANGED <<pc, inp, ctx, dest, ntb, cres, par, dcall, out, dres, log,
                 plan, amb>>

\* blosc_d on the bytes a successful blosc_c call stored
block_d ==
  /\ pc = "block"
  /\ blk.pc = "compressed"
  /\ blk.ret > 0
  /\ LET r == blosc_d(blk.flags, blk.typesize, blk.bsize, blk.leftoverblock,
                      blk.bytes, 0)
     IN blk' = [blk EXCEPT !.pc = "decompressed", !.dret = r.ret,
                           !.data = r.data]
  /\ UNCHANGED <<pc, inp, ctx, dest, ntb, cres, par, dcall, out, dres, log,
                 plan, amb>>

NextBlockCall == block_c \/ block_d

SpecBlock == InitBlock /\ [][NextBlockCall]_vars

----------------------------------------------------------------------------
(* The non-contextual API: the global context, its mutex and its callers *)

\* blosc_compname_to_compcode, for a build with blosclz only
blosc_compname_to_compcode(compname) ==
  IF compname = "blosclz" THEN BLOSC_BLOSCLZ ELSE -1

\* the tail of blosc_compress_context: cbytes is patched, ntbytes returned
CompressReturned(d, ntbytes) ==
  [ret |-> ntbytes, d |-> Write(d, 12, storeu_int32(ntbytes))]

\* blosc_compress_context after the do_job of its memcpy section
AfterMemcpyJob(job) ==
  IF job.ret < 0 THEN [ret |-> -1, d |-> job.d]
                 ELSE CompressReturned(job.d, job.ret)

\* the memcpy section of blosc_compress_context
CompressMemcpyed(c, d, src) ==
  IF c.sourcesize + BLOSC_MAX_OVERHEAD > c.destsize
    THEN CompressReturned(d, 0)
  ELSE IF c.sourcesize % L1 = 0 \/ c.numthreads > 1
    THEN AfterMemcpyJob(SerialC(c, src, d, 0, BLOSC_MAX_OVERHEAD))
  ELSE CompressReturned(Write(d, BLOSC_MAX_OVERHEAD, src),
                        c.sourcesize + BLOSC_MAX_OVERHEAD)

\* blosc_compress_context after the do_job of its first pass
AfterFirstJob(c, src, first) ==
  IF first.ret < 0 THEN [ret |-> -1, d |-> first.d]
  ELSE IF first.ret = 0 /\ c.sourcesize + BLOSC_MAX_OVERHEAD <= c.destsize
    THEN CompressMemcpyed(c, Write(first.d, 2,
                            << SetFlag(Flags(first.d), BLOSC_MEMCPYED) >>),
                          src)
  ELSE CompressReturned(first.d, first.ret)

\* blosc_compress_context when do_job takes serial_blosc: ret is the value
\* returned, d the destination buffer
blosc_compress_context(c, d, src) ==
  IF HasFlag(Flags(d), BLOSC_MEMCPYED) THEN CompressMemcpyed(c, d, src)
  ELSE AfterFirstJob(c, src, SerialC(c, src, d, 0, c.num_output_bytes))

\* blosc_run_decompression_with_context after do_job
AfterDecompressJob(c, job) ==
  IF job.fault THEN [ret |-> 0, fault |-> TRUE, c |-> c]
  ELSE IF job.ret < 0 THEN [ret |-> -1, fault |-> FALSE, c |-> c]
  ELSE [ret |-> job.ret, fault |-> FALSE, c |-> c]

\* blosc_run_decompression_with_context from the space check on, with the
\* context c it read from the header
RunDecompression(c, art, destsize) ==
  IF c.blocksize <= 0 THEN [ret |-> 0, fault |-> TRUE, c |-> c]
  ELSE IF NotEnoughSpace(c.sourcesize, destsize)
    THEN [ret |-> -1, fault |-> FALSE, c |-> c]
  ELSE IF HasFlag(Flags(art), BLOSC_MEMCPYED)
          /\ ~(c.sourcesize % L1 = 0 \/ c.numthreads > 1)
    THEN [ret |-> c.sourcesize, c |-> c,
          fault |-> ~InBounds(art, BLOSC_MAX_OVERHEAD, c.sourcesize)]
  ELSE AfterDecompressJob(c, SerialD(c, art, Fresh(destsize), 0, 0, {}))

\* blosc_run_decompression_with_context when do_job takes serial_blosc: ret
\* is the value returned, c the context as the call leaves it
blosc_run_decompression_with_context(art, destsize, numinternalthreads) ==
  RunDecompression(
    ReadHeader(art) @@ [destsize |-> destsize, num_output_bytes |-> 0,
                        numthreads |-> numinternalthreads, compcode |-> 0,
                        clevel |-> 0],
    art, destsize)

\* settings taken from the global context and g_force_blocksize whatever the
\* arguments
SettingsOfGlobalContext(a) ==
  [compcode |-> amb.ctx.compcode, blocksize |-> amb.g_force_blocksize,
   numthreads |-> amb.ctx.numthreads]

\* the settings blosc_compress_ctx hands to initialize_context_compression:
\* its own arguments
CtxSettings(a) ==
  [compcode |-> blosc_compname_to_compcode(a.compressor),
   blocksize |-> a.blocksize, numthreads |-> a.numinternalthreads]

\* the settings blosc_compress hands to initialize_context_compression: the
\* global context's and g_force_blocksize
GlobalSettings ==
  [compcode |-> amb.ctx.compcode, blocksize |-> amb.g_force_blocksize,
   numthreads |-> amb.ctx.numthreads]

\* the calls the applications make: one block each, so do_job takes
\* serial_blosc whatever the thread count
AmbNBytes == 200
AmbSrc == Src("const", AmbNBytes)
AmbCompressArgs ==
  [clevel : {5, 10}, destsize : {AmbNBytes + BLOSC_MAX_OVERHEAD}]
AmbCtxArgs ==
  [clevel : {5, 10}, destsize : {AmbNBytes + BLOSC_MAX_OVERHEAD},
   compressor : {"blosclz"}, blocksize : {0, 256}, numinternalthreads : {1}]
AmbNames == {"blosclz", "nope"}
AmbThreads == {1, 2}
AmbBlocksizes == {0, 256}
AmbOutCaps == {AmbNBytes, AmbNBytes - 1}
\* the artifact the applications decompress: AmbSrc compressed at level 5
AmbArtifact ==
  SerialCompress([clevel |-> 5, doshuffle |-> 1, typesize |-> 1,
                  nbytes |-> AmbNBytes, pat |-> "const",
                  destsize |-> AmbNBytes + BLOSC_MAX_OVERHEAD,
                  blocksize |-> 0]).d

\* the global context can be dereferenced
Live == amb.g_global_context = "live"
Self(t) == amb.caller[t]
Idle(t) == ~amb.crashed /\ Self(t).pc = "idle"
CanCall(t) == Idle(t) /\ amb.calls < MaxCalls

\* the caller enters an entry point, is inside one, returns from one
Enter(g, t, api, a, p) ==
  [g EXCEPT !.calls = @ + 1,
            !.caller[t] = [NoCaller EXCEPT !.pc = p, !.api = api, !.a = a]]
Goto(g, t, p) == [g EXCEPT !.caller[t].pc = p]
Leave(g, t, r) ==
  [g EXCEPT !.caller[t] = [@ EXCEPT !.pc = "idle", !.ret = r, !.c = NoCtx,
                                    !.d = << >>]]
\* an access to the global context made by entry point `api` of caller t:
\* noted when the caller does not hold global_comp_mutex, a fault when the
\* pointer is NULL or dangling
Access(g, t, api) ==
  [g EXCEPT !.unlocked = IF g.mutex = t THEN @ ELSE @ \cup {api},
            !.uninit = IF g.g_global_context = "live" THEN @ ELSE @ \cup {api},
            !.fault = @ \/ g.g_global_context # "live"]
\* a store to the global context by a call other than the compress call in
\* progress on it
Clobber(g, t) == [g EXCEPT !.writer = IF @ = 0 THEN 0 ELSE t]
\* what a step that faulted (bad) may lead to: the end of the process, or
\* the step's effect
Outcome(g, bad, fo) ==
  IF bad /\ fo = "crash"
    THEN [amb EXCEPT !.fault = TRUE, !.crashed = TRUE, !.uninit = g.uninit]
    ELSE g

\* blosc_init
InitLib(g) ==
  [g EXCEPT !.mutex = 0, !.g_global_context = "live",
            !.ctx = [NoCtx EXCEPT !.numthreads = 1,
                                  !.compcode = BLOSC_BLOSCLZ],
            !.writer = 0, !.g_initlib = 1]

\* an application calls blosc_init
blosc_init(t) ==
  /\ CanCall(t)
  /\ amb' = Leave(InitLib(Enter(amb, t, "blosc_init", NoCaller.a, "idle")), t, 0)
  /\ UNCHANGED callvars

\* an application calls blosc_destroy
blosc_destroy(t) ==
  /\ CanCall(t)
  /\ \E fo \in FaultOutcomes :
       LET g == Enter(amb, t, "blosc_destroy", NoCaller.a, "idle")
           freed == [g EXCEPT !.g_initlib = 0,
                              !.g_global_context =
                                 IF @ = "null" THEN "null" ELSE "freed",
                              !.fault = @ \/ g.g_global_context = "freed",
                              !.writer = 0]
       IN amb' = Outcome(Leave(freed, t, 0),
                         amb.g_global_context = "freed", fo)
  /\ UNCHANGED callvars

\* blosc_set_blocksize
blosc_set_blocksize(t) ==
  /\ CanCall(t)
  /\ \E size \in AmbBlocksizes :
       LET g == Enter(amb, t, "blosc_set_blocksize", [size |-> size], "idle")
           noted == [g EXCEPT !.unlocked = @ \cup {"blosc_set_blocksize"}]
       IN amb' = Leave([noted EXCEPT !.g_force_blocksize = size], t, 0)
  /\ UNCHANGED callvars

\* blosc_set_nthreads: the read of the old count and the test of g_initlib
blosc_set_nthreads(t) ==
  /\ CanCall(t)
  /\ \E nthreads_new \in AmbThreads, fo \in FaultOutcomes :
       LET g == Access(amb, t, "blosc_set_nthreads")
           e == Enter(g, t, "blosc_set_nthreads",
                      [nthreads_new |-> nthreads_new],
                      IF amb.g_initlib = 0 THEN "n_init" ELSE "n_write")
       IN amb' = Outcome([e EXCEPT !.caller[t].ret = amb.ctx.numthreads],
                         ~Live, fo)
  /\ UNCHANGED callvars

\* blosc_set_nthreads: the store of the new count
set_nthreads_write(t) ==
  /\ ~amb.crashed /\ Self(t).pc = "n_write"
  /\ \E fo \in FaultOutcomes :
       LET g == Clobber(Access(amb, t, "blosc_set_nthreads"), t)
           w == [g EXCEPT !.ctx.numthreads = Self(t).a.nthreads_new]
       IN amb' = Outcome(Leave(w, t, Self(t).ret), ~Live, fo)
  /\ UNCHANGED callvars

\* blosc_set_compressor: the store of the code and the test of g_initlib
blosc_set_compressor(t) ==
  /\ CanCall(t)
  /\ \E compname \in AmbNames, fo \in FaultOutcomes :
       LET code == blosc_compname_to_compcode(compname)
           g == Clobber(Access(amb, t, "blosc_set_compressor"), t)
           w == [g EXCEPT !.ctx.compcode = code]
           e == Enter(w, t, "blosc_set_compressor", [compname |-> compname],
                      "s_init")
       IN amb' = Outcome(IF amb.g_initlib = 0 THEN e
                                              ELSE Leave(e, t, code),
                         ~Live, fo)
  /\ UNCHANGED callvars

\* the blosc_init an entry point runs when it found g_initlib clear
lazy_init(t) ==
  /\ ~amb.crashed /\ Self(t).pc \in {"n_init", "s_init", "c_init"}
  /\ LET g == [InitLib(amb) EXCEPT !.reinit = @ \/ amb.g_initlib = 1]
     IN amb' = CASE Self(t).pc = "n_init" -> Goto(g, t, "n_write")
                 [] Self(t).pc = "c_init" -> Goto(g, t, "c_lock")
                 [] OTHER -> Leave(g, t,
                               blosc_compname_to_compcode(Self(t).a.compname))
  /\ UNCHANGED callvars

\* blosc_compress: the test of g_initlib
blosc_compress(t) ==
  /\ CanCall(t)
  /\ \E a \in AmbCompressArgs :
       amb' = Enter(amb, t, "blosc_compress", a,
                    IF amb.g_initlib = 0 THEN "c_init" ELSE "c_lock")
  /\ UNCHANGED callvars

\* blosc_compress: pthread_mutex_lock
compress_lock(t) ==
  /\ ~amb.crashed /\ Self(t).pc = "c_lock"
  /\ amb.mutex = 0
  /\ amb' = Goto([amb EXCEPT !.mutex = t], t, "c_setup")
  /\ UNCHANGED callvars

\* blosc_compress: initialize_context_compression and
\* write_compression_header on the global context, with their error returns
compress_setup(t) ==
  /\ ~amb.crashed /\ Self(t).pc = "c_setup"
  /\ \E fo \in FaultOutcomes :
       LET s == GlobalSettings
           ini == initialize_context_compression(Self(t).a.clevel, 1, 1,
                    AmbNBytes, Self(t).a.destsize, s.compcode, s.blocksize,
                    s.numthreads)
           h == write_compression_header(ini.c, Zeros(Self(t).a.destsize), 1)
           g == [Access(amb, t, "blosc_compress") EXCEPT !.writer = t]
       IN amb' = Outcome(
            IF ini.err < 0 THEN Leave([g EXCEPT !.ctx = ini.c], t, ini.err)
            ELSE IF h.err < 0 THEN Leave([g EXCEPT !.ctx = h.c], t, h.err)
            ELSE [g EXCEPT !.ctx = h.c, !.caller[t].pc = "c_job",
                           !.caller[t].d = h.d],
            ~Live, fo)
  /\ UNCHANGED callvars

\* blosc_compress: blosc_compress_context on the global context, then
\* pthread_mutex_unlock and the return. When another call has written the
\* context since the setup, the job works on a context that is not its own.
compress_job(t) ==
  /\ ~amb.crashed /\ Self(t).pc = "c_job"
  /\ \E fo \in FaultOutcomes :
       LET raced == amb.writer # t
           g == [Access(amb, t, "blosc_compress") EXCEPT !.fault = @ \/ raced]
           r == blosc_compress_context(amb.ctx, Self(t).d, AmbSrc)
           u == [g EXCEPT !.mutex = 0, !.writer = 0]
       IN \E ret \in IF raced THEN {r.ret, -1} ELSE {r.ret} :
            amb' = Outcome(Leave(u, t, ret), ~Live \/ raced, fo)
  /\ UNCHANGED callvars

\* blosc_decompress
blosc_decompress(t) ==
  /\ CanCall(t)
  /\ \E destsize \in AmbOutCaps, fo \in FaultOutcomes :
       LET g == Clobber(Access(amb, t, "blosc_decompress"), t)
           e == Enter(g, t, "blosc_decompress", [destsize |-> destsize],
                      "idle")
           n == amb.ctx.numthreads
           r == blosc_run_decompression_with_context(dest, destsize, n)
           w == [e EXCEPT !.ctx = r.c]
       IN amb' = Outcome(Leave(w, t, r.ret), ~Live, fo)
  /\ UNCHANGED callvars

\* blosc_compress_ctx up to blosc_compress_context, on its own context
blosc_compress_ctx(t) ==
  /\ CanCall(t)
  /\ \E a \in AmbCtxArgs :
       LET s == CtxSettings(a)
           ini == initialize_context_compression(a.clevel, 1, 1, AmbNBytes,
                    a.destsize, s.compcode, s.blocksize, s.numthreads)
           h == write_compression_header(ini.c, Zeros(a.destsize), 1)
           e == Enter(amb, t, "blosc_compress_ctx", a, "x_job")
       IN amb' = IF ini.err < 0 THEN Leave(e, t, ini.err)
                 ELSE IF h.err < 0 THEN Leave(e, t, h.err)
                 ELSE [e EXCEPT !.caller[t].c = h.c, !.caller[t].d = h.d]
  /\ UNCHANGED callvars

\* blosc_compress_ctx: blosc_compress_context on its own context
compress_ctx_job(t) ==
  /\ ~amb.crashed /\ Self(t).pc = "x_job"
  /\ amb' = Leave(amb, t,
                  blosc_compress_context(Self(t).c, Self(t).d, AmbSrc).ret)
  /\ UNCHANGED callvars

\* blosc_decompress_ctx
blosc_decompress_ctx(t) ==
  /\ CanCall(t)
  /\ \E destsize \in AmbOutCaps :
       amb' = Leave(Enter(amb, t, "blosc_decompress_ctx",
                          [destsize |-> destsize], "idle"),
                    t, blosc_run_decompression_with_context(dest, destsize,
                                                            1).ret)
  /\ UNCHANGED callvars

InitAmbient ==
  /\ pc = "ambient"
  /\ inp = NoInp
  /\ ctx = NoCtx
  /\ dest = AmbArtifact
  /\ ntb = 0
  /\ cres = 0
  /\ par = NoPar
  /\ dcall = NoCall
  /\ out = << >>
  /\ dres = 0
  /\ log = NoLog
  /\ plan = NoPlan
  /\ amb = NoAmb
  /\ blk = NoBlk

NextAmbient ==
  \E t \in Callers :
    \/ blosc_init(t)
    \/ blosc_destroy(t)
    \/ blosc_set_blocksize(t)
    \/ blosc_set_nthreads(t)
    \/ set_nthreads_write(t)
    \/ blosc_set_compressor(t)
    \/ lazy_init(t)
    \/ blosc_compress(t)
    \/ compress_lock(t)
    \/ compress_setup(t)
    \/ compress_job(t)
    \/ blosc_decompress(t)
    \/ blosc_compress_ctx(t)
    \/ compress_ctx_job(t)
    \/ blosc_decompress_ctx(t)

SpecAmbient == InitAmbient /\ [][NextAmbient]_vars

----------------------------------------------------------------------------
(* The properties of the calls *)

\* blosc_compress_ctx has returned and the artifact is as it left it
Compressed == pc = "compressed" /\ ~log.corrupted
\* blosc_decompress_ctx has been called: it returned, runs its job or crashed
DecompressCalled == pc \in {"d_job", "d_job_ret", "decompressed", "crashed"}
                    /\ ~ctx.compress
\* blosc_getitem has been called: it returned or crashed
GetItemCalled == pc \in {"gotitem", "crashed"} /\ ctx.compress
\* the source buffer of the compress call, and its room for a raw copy
Source == Src(inp.pat, inp.nbytes)
Roomy == inp.destsize >= inp.nbytes + BLOSC_MAX_OVERHEAD
\* header fields of the artifact
DeclaredNBytes == loadu_int32(dest, 4)
DeclaredCBytes == loadu_int32(dest, 12)
BStart(i) == loadu_int32(dest, 16 + 4 * i)
MemcpyFlag == HasFlag(Flags(dest), BLOSC_MEMCPYED)

\* C1: round trip.  With destsize >= nbytes + 16, blosc_compress_ctx returns
\* a positive length, and blosc_decompress_ctx on the artifact, given room
\* for nbytes bytes, returns nbytes and leaves the source bytes in dest, for
\* every thread count of either call.
RoundTrip ==
  /\ Compressed /\ Roomy => cres > 0
  /\ DecompressCalled /\ ~log.corrupted /\ Roomy
       /\ dcall.destsize >= inp.nbytes /\ pc \in {"decompressed", "crashed"}
     => /\ pc = "decompressed"
        /\ dres = inp.nbytes
        /\ Slice(out, 0, inp.nbytes) = Source

\* C2: thread-count independence.  The bytes blosc_compress_ctx leaves in
\* dest and the value it returns are those of the call with one thread, for
\* every thread count and every interleaving of the threads.
ThreadCountIndependence ==
  Compressed => /\ dest = SerialCompress(inp).d
                /\ cres = SerialCompress(inp).ret

\* C3: after a successful compress that left the memcpy flag clear, every
\* bstarts[i] lies in [16 + 4 * nblocks, cbytes) and the payload there decodes
\* to block i of the source.
BStartsPointAtBlocks ==
  Compressed /\ cres > 0 /\ ~MemcpyFlag
  => \A i \in 0..(ctx.nblocks - 1) :
       /\ 16 + 4 * ctx.nblocks <= BStart(i)
       /\ BStart(i) < DeclaredCBytes
       /\ LET r == DecodeBlock(ctx, dest, i)
          IN /\ ~r.fault
             /\ r.ret = BSize(ctx, i)
             /\ r.data = Slice(Source, i * ctx.blocksize, BSize(ctx, i))

\* C4: partial decode.  For an artifact compress produced and items
\* start .. start + nitems - 1 inside the buffer, blosc_getitem returns
\* nitems * typesize and writes exactly those items of the source.
GetItemIsSlice ==
  GetItemCalled /\ ~log.corrupted
  /\ (dcall.start + dcall.nitems) * inp.typesize <= inp.nbytes
  => /\ pc = "gotitem"
     /\ dres = dcall.nitems * inp.typesize
     /\ out = Slice(Source, dcall.start * inp.typesize,
                    dcall.nitems * inp.typesize)

\* C5: with clevel 0 or nbytes < MIN_BUFFERSIZE, and destsize >= nbytes + 16,
\* the artifact has the memcpy flag set and both the value returned and the
\* cbytes field are nbytes + 16, for every thread count and block count.
MemcpyWhenLevelZeroOrSmall ==
  Compressed /\ Roomy /\ (inp.clevel = 0 \/ inp.nbytes < MIN_BUFFERSIZE)
  => /\ MemcpyFlag
     /\ cres = inp.nbytes + BLOSC_MAX_OVERHEAD
     /\ DeclaredCBytes = inp.nbytes + BLOSC_MAX_OVERHEAD

\* C6: memcpy fallback.  When the first pass reported 0 and
\* nbytes + 16 <= destsize, compress sets the memcpy flag, stores the raw
\* source after the header and returns nbytes + 16, on either engine.
MemcpyFallback ==
  Compressed /\ log.fallback
  => /\ MemcpyFlag
     /\ Slice(dest, BLOSC_MAX_OVERHEAD, inp.nbytes) = Source
     /\ cres = inp.nbytes + BLOSC_MAX_OVERHEAD

\* the length of the whole stream (header, block starts, payloads) for the
\* inputs of the call, as a destination with room for it receives it
StreamLength ==
  SerialCompress([inp EXCEPT !.destsize = 2 * inp.nbytes + 64]).ret

\* C7: when neither the compressed stream nor the raw copy (nbytes + 16)
\* fits in destsize, compress returns exactly 0.
ZeroWhenNothingFits ==
  Compressed /\ StreamLength > inp.destsize
  /\ inp.nbytes + BLOSC_MAX_OVERHEAD > inp.destsize
  => cres = 0

StartInRange(off) ==
  /\ 16 + 4 * ReadHeader(dest).nblocks <= off
  /\ off < DeclaredCBytes

\* C9: a reader of an artifact with a bstarts[i] outside
\* [16 + 4 * nblocks, cbytes) reads no block payload at such an offset, and
\* decompress returns a negative value.
RejectsBStartOutOfRange ==
  log.corrupted /\ (GetItemCalled \/ DecompressCalled)
  /\ pc \in {"gotitem", "decompressed", "crashed"}
  => /\ pc # "crashed"
     /\ \A off \in log.reads : StartInRange(off)
     /\ pc = "decompressed" => dres < 0

\* C10: for nbytes >= typesize, compute_blocksize returns a positive multiple
\* of typesize, for every compressor, clevel and forced blocksize >= 0.
BlocksizeMultipleOfTypesize ==
  plan.done /\ plan.nbytes >= plan.typesize
  => /\ plan.blocksize > 0
     /\ plan.blocksize % plan.typesize = 0

\* the forced-blocksize path of compute_blocksize was taken
OverridePath == plan.done /\ plan.forced > 0 /\ plan.nbytes >= plan.typesize

\* C11 as stated: on the forced-blocksize path the returned blocksize is at
\* least MIN_BUFFERSIZE, for every nbytes, typesize and compressor.
OverrideAtLeastMinBuffersize ==
  OverridePath => plan.blocksize >= MIN_BUFFERSIZE

\* the least blocksize the forced path can return: MIN_BUFFERSIZE, clamped
\* to nbytes, rounded down to a multiple of typesize when above typesize
OverrideFloor ==
  LET m == IF plan.nbytes < MIN_BUFFERSIZE THEN plan.nbytes
                                           ELSE MIN_BUFFERSIZE
  IN IF m > plan.typesize THEN m - (m % plan.typesize) ELSE m

\* C11 amended: on the forced-blocksize path the returned blocksize is at
\* least MIN_BUFFERSIZE clamped to nbytes and rounded down to the typesize;
\* it is at least MIN_BUFFERSIZE when nbytes >= MIN_BUFFERSIZE and typesize
\* divides MIN_BUFFERSIZE or is at least MIN_BUFFERSIZE.
OverrideAtLeastClampedMinBuffersize ==
  OverridePath
  => /\ plan.blocksize >= OverrideFloor
     /\ plan.nbytes >= MIN_BUFFERSIZE
        /\ (MIN_BUFFERSIZE % plan.typesize = 0
            \/ plan.typesize >= MIN_BUFFERSIZE)
        => plan.blocksize >= MIN_BUFFERSIZE

\* a forced blocksize below MIN_BUFFERSIZE was raised to MIN_BUFFERSIZE
OverrideRaisedToMinBuffersize ==
  /\ OverridePath
  /\ plan.forced < MIN_BUFFERSIZE
  /\ plan.nbytes >= MIN_BUFFERSIZE
  /\ plan.blocksize = MIN_BUFFERSIZE

----------------------------------------------------------------------------
(* The properties of the non-contextual API *)

\* caller t is back from a call of entry point api
Returned(t, api) == Self(t).pc = "idle" /\ Self(t).api = api

\* C12: every access to the global context (and g_force_blocksize) made by
\* blosc_compress, blosc_decompress, blosc_set_nthreads, blosc_set_compressor
\* or blosc_set_blocksize is made while the caller holds global_comp_mutex.
AmbientAccessUnderLock == amb.unlocked = {}

\* the statics of the non-contextual API and the global context
Globals(g) ==
  << g.g_initlib, g.g_global_context, g.ctx, g.g_force_blocksize, g.mutex,
     g.writer, g.unlocked, g.fault, g.crashed >>
\* caller t takes a step of blosc_compress_ctx or blosc_decompress_ctx (such
\* a step leaves t inside or back from one of the two and moves no other
\* caller)
CtxApis == {"blosc_compress_ctx", "blosc_decompress_ctx"}
CtxStep(t) ==
  /\ Self(t)'.api \in CtxApis
  /\ \A u \in Callers \ {t} : Self(u)' = Self(u)
  /\ blosc_compress_ctx(t) \/ compress_ctx_job(t) \/ blosc_decompress_ctx(t)
\* what the contextual calls return for their arguments alone: the length of
\* the artifact or -10 for a clevel out of range, and nbytes or -1 for a
\* destination that is too small
AmbCompressedLength == loadu_int32(AmbArtifact, 12)
CtxResultsFollowArguments ==
  \A t \in Callers :
    /\ Returned(t, "blosc_compress_ctx")
       => Self(t).ret = IF Self(t).a.clevel > 9 THEN -10
                                                ELSE AmbCompressedLength
    /\ Returned(t, "blosc_decompress_ctx")
       => Self(t).ret = IF Self(t).a.destsize < AmbNBytes THEN -1
                                                        ELSE AmbNBytes

\* C13: blosc_compress_ctx and blosc_decompress_ctx leave the statics and the
\* global context unchanged, and their results follow from their arguments
\* alone, whatever the state of the non-contextual API.
CtxCallsApartFromGlobals ==
  /\ [][\A t \in Callers : CtxStep(t) => Globals(amb)' = Globals(amb)]_vars
  /\ []CtxResultsFollowArguments

\* a blosc_compress_ctx call has compressed with its own blocksize and
\* compressor while the non-contextual API was set up otherwise and a
\* blosc_compress call held the mutex
CtxCallAmidGlobals ==
  \E t \in Callers :
    /\ Returned(t, "blosc_compress_ctx")
    /\ Self(t).ret = AmbCompressedLength
    /\ amb.mutex \notin {0, t}

\* C18: a blosc_compress call that has returned, with a result or with an
\* error, does not hold global_comp_mutex any more (so that a later
\* blosc_compress can take it).
CompressReleasesMutex ==
  \A t \in Callers : Returned(t, "blosc_compress") => amb.mutex # t

----------------------------------------------------------------------------
(* The properties of the parallel engine *)

\* every thread of the team has left its loop: the end of the parallel region
RegionEnded == par.active /\ \A w \in BagToSet(par.w) : w.pc = "done"

\* C14: the giveup code is sticky.  Once a thread of a parallel compression
\* has recorded a negative code, the code at the end of the parallel region is
\* negative, the call returns a negative value, and no memcpy fallback
\* follows.
GiveupCodeSticky ==
  /\ RegionEnded /\ ctx.compress /\ par.hard => par.giveup < 0
  /\ Compressed /\ log.hard => cres < 0 /\ ~log.fallback

\* C15: scratch buffers.  When compress, decompress or getitem has returned,
\* on whatever exit path, every tmp and tmp2 the call allocated has been
\* freed: none is still allocated.
CallReturned == pc \in {"compressed", "decompressed", "gotitem"}
ScratchFreedOnReturn == CallReturned => log.live = 0

\* C16: one thread per start entry.  At the end of a parallel region that did
\* not give up, every bstarts[i] has been stored (compression) or loaded
\* (decompression) exactly once, and a decompression has accumulated nbytes
\* bytes.
EachBStartOnce ==
  RegionEnded /\ par.giveup > 0 =>
    /\ \A i \in BagToSet(par.touch) : CopiesIn(i, par.touch) = 1
    /\ ~ctx.compress => par.nob = ctx.sourcesize

\* C19: ordered commit.  In a parallel compression the ordered section of
\* block i is over before the ordered section of a block j > i starts: no
\* thread is inside the ordered section of a block while the section of a
\* later block has completed; hence the block starts of a successful compress
\* are strictly increasing in the block index.
OrderedCommit ==
  /\ par.active /\ ctx.compress =>
        \A w \in BagToSet(par.w) :
           w.pc = "ord_update" => par.maxdone <= w.block_idx
  /\ Compressed /\ cres > 0 /\ ~MemcpyFlag =>
        \A i \in 0..(ctx.nblocks - 2) : BStart(i) < BStart(i + 1)

\* C20: the shared cursor and the shared giveup code are written only inside
\* the ordered section (compression) or by an atomic update (decompression):
\* no line of the parallel engine has stored to either of them outside these.
CursorAndGiveupProtected == par.plain = {} /\ log.plain = {}

----------------------------------------------------------------------------
(* The empty buffer *)

\* C17: an empty buffer (nbytes = 0, destsize >= 16) compresses to a
\* header-only artifact: no block, returned length and cbytes field equal to
\* the header overhead, nbytes field 0; decompressing it returns 0 and writes
\* nothing to dest.
EmptyBufferHeaderOnly ==
  /\ Compressed /\ inp.nbytes = 0 /\ inp.destsize >= BLOSC_MAX_OVERHEAD =>
        /\ cres = BLOSC_MAX_OVERHEAD
        /\ DeclaredCBytes = BLOSC_MAX_OVERHEAD
        /\ DeclaredNBytes = 0
        /\ ReadHeader(dest).nblocks = 0
        /\ ~log.assert_failed /\ ~log.fault
  /\ pc = "decompressed" /\ ~log.corrupted /\ inp.nbytes = 0 =>
        dres = 0 /\ out = Fresh(dcall.destsize)
EmptyBufferDecompressed ==
  /\ pc = "decompressed"
  /\ inp.nbytes = 0
  /\ inp.numthreads = MaxThreads
  /\ inp.clevel > 0
  /\ dcall.destsize > 0
  /\ dres = 0

----------------------------------------------------------------------------
(* The bounds of the destination *)

\* C21: compress writes no byte of dest at an index >= destsize, whatever the
\* destsize, the input and the thread count.
CompressStaysInDest == ~log.oob /\ ~par.oob

----------------------------------------------------------------------------
(* The layout of the serial engine *)

\* what blosc_c returns for block i of the source when the cursor is at the
\* start recorded for it
BlockBytes(i) ==
  blosc_c(Flags(dest), ctx.typesize, ctx.compcode, BSize(ctx, i),
          LeftoverBlock(ctx, i), BStart(i), ctx.destsize,
          Slice(Source, i * ctx.blocksize, BSize(ctx, i))).ret
SerialPacked == Compressed /\ cres > 0 /\ ~MemcpyFlag /\ inp.numthreads = 1

\* C22: packed layout.  After a successful non-memcpy compress with one
\* thread bstarts[0] = 16 + 4 * nblocks, every further start is the previous
\* one plus the bytes blosc_c returned for the previous block, and the value
\* returned and the cbytes field are the last start plus the bytes of the
\* last block.
SerialLayoutPacked ==
  SerialPacked =>
    /\ BStart(0) = 16 + 4 * ctx.nblocks
    /\ \A i \in 0..(ctx.nblocks - 2) : BStart(i + 1) = BStart(i) + BlockBytes(i)
    /\ cres = DeclaredCBytes
    /\ cres = BStart(ctx.nblocks - 1) + BlockBytes(ctx.nblocks - 1)
SerialTwoBlocksPacked ==
  SerialPacked /\ ctx.nblocks = 2 /\ ctx.leftover > 0 /\ inp.typesize = 2
----------------------------------------------------------------------------
(* The output budget of blosc_c *)

BlockCalled == blk.pc # "none"

\* the budget left after the 4-byte prefix of the first split
FirstBudget == blk.maxbytes - (blk.ntbytes + 4)

\* the end (an offset from the start of the output buffer, as ntbytes and
\* maxbytes are) of the region the call handed to the backend for the split
\* it reached at offset cur of its output, and for the splits stored after it;
\* 0 when the backend was not called
RECURSIVE ReachFrom(_, _)
ReachFrom(split_idx, cur) ==
  IF split_idx >= NSplits(blk.typesize, blk.bsize, blk.leftoverblock) THEN 0
  ELSE
    LET neblock ==
          blk.bsize \div NSplits(blk.typesize, blk.bsize, blk.leftoverblock)
        ntbytes_current == blk.ntbytes + cur + 4
        maxout == SplitMaxout(BLOSC_BLOSCLZ, neblock, ntbytes_current,
                              blk.maxbytes)
        rest == IF cur < Len(blk.bytes)
                  THEN ReachFrom(split_idx + 1,
                                 cur + 4 + loadu_int32(blk.bytes, cur))
                  ELSE 0
    IN IF Clamped(BLOSC_BLOSCLZ, neblock, ntbytes_current, blk.maxbytes)
          /\ maxout <= 0
         THEN 0
       ELSE IF rest > ntbytes_current + maxout THEN rest
       ELSE ntbytes_current + maxout
BlockReach == ReachFrom(0, 0)

\* the call is one of the parallel engine: it compresses into tmp2
IntoTmp2 == blk.ntbytes = 0 /\ blk.maxbytes = blk.ebsize

BudgetExhaustedMidBlock == BlockCalled /\ blk.ret = 0 /\ blk.bytes # << >>
NoBudgetAtAll == BlockCalled /\ FirstBudget <= 0 /\ blk.ret = 0
----------------------------------------------------------------------------
(* The raw splits *)

\* what blosc_c compressed: the block, shuffled when the flag asks for it
BlockTmp ==
  IF HasFlag(blk.flags, BLOSC_DOSHUFFLE) /\ blk.typesize > 1
    THEN shuffle(blk.typesize, blk.bsize, blk.src) ELSE blk.src
BlockNSplits == NSplits(blk.typesize, blk.bsize, blk.leftoverblock)
\* M, the uncompressed length of a split
BlockNeblock == blk.bsize \div BlockNSplits

\* the split stored at offset cur of the block's bytes, and those after it:
\* split_clen = M exactly when the backend returned 0 or M, and then the
\* payload is the split itself; otherwise the payload is the backend's output
RECURSIVE SplitsFrom(_, _)
SplitsFrom(split_idx, cur) ==
  IF cur >= Len(blk.bytes) THEN TRUE
  ELSE
    LET split_clen == loadu_int32(blk.bytes, cur)
        payload == Slice(blk.bytes, cur + 4, split_clen)
        input == Slice(BlockTmp, split_idx * BlockNeblock, BlockNeblock)
        enc == backend_compress(input,
                 SplitMaxout(BLOSC_BLOSCLZ, BlockNeblock,
                             blk.ntbytes + cur + 4, blk.maxbytes))
    IN /\ (split_clen = BlockNeblock) = (Len(enc) \in {0, BlockNeblock})
       /\ split_clen = BlockNeblock => payload = input
       /\ split_clen # BlockNeblock => payload = enc /\ payload # input
       /\ SplitsFrom(split_idx + 1, cur + 4 + split_clen)

\* the block holds a split the backend encoded in exactly M bytes
RECURSIVE ExactlyMFrom(_, _)
ExactlyMFrom(split_idx, cur) ==
  /\ cur < Len(blk.bytes)
  /\ \/ Len(backend_compress(
              Slice(BlockTmp, split_idx * BlockNeblock, BlockNeblock),
              BlockNeblock)) = BlockNeblock
     \/ ExactlyMFrom(split_idx + 1, cur + 4 + loadu_int32(blk.bytes, cur))

\* C24: in what blosc_c stored, split_clen equals the uncompressed length M
\* of the split exactly when the payload is the M raw bytes (the backend
\* returned 0 or exactly M); any other split holds the backend's output with
\* split_clen # M. blosc_d, which copies raw exactly when split_clen = M,
\* therefore gives the block back.
RawExactlyWhenClenIsM ==
  /\ BlockCalled /\ blk.ret > 0 => SplitsFrom(0, 0)
  /\ blk.pc = "decompressed" => blk.dret = blk.bsize /\ blk.data = blk.src

\* a block with a split the backend encoded in exactly M bytes, decompressed
ExactlyMStoredRaw ==
  blk.pc = "decompressed" /\ blk.ret > 0 /\ ExactlyMFrom(0, 0)
----------------------------------------------------------------------------
(* The lengths given to shuffle and unshuffle *)

\* blosc_c shuffled the block, and blosc_d unshuffles it
ShuffleCalled ==
  BlockCalled /\ HasFlag(blk.flags, BLOSC_DOSHUFFLE) /\ blk.typesize > 1
UnshuffleCalled == blk.pc = "decompressed" /\ ShuffleCalled /\ blk.dret >= 0

\* C27: every shuffle call of blosc_c and every unshuffle call of blosc_d is
\* given a length that is a multiple of typesize, the short last block of a
\* buffer whose length is not a multiple of typesize and the blocks of a
\* forced blocksize included.
ShuffleLengthMultipleOfTypesize ==
  /\ ShuffleCalled => blk.bsize % blk.typesize = 0
  /\ UnshuffleCalled => blk.bsize % blk.typesize = 0
----------------------------------------------------------------------------
(* The uninitialised library *)

\* the only call made so far, on the library as the program starts, is a
\* call of `api` by t, and it has returned
OnlyCall(t, api) ==
  ~amb.crashed /\ amb.calls = 1 /\ Self(t).api = api /\ Self(t).pc = "idle"

\* no entry point touched the global context while there was none
NoAccessWhileUninitialised == amb.uninit = {}

\* what the first call set is what the global context holds for blosc_compress
FirstSettingKept ==
  \A t \in Callers :
    /\ OnlyCall(t, "blosc_set_nthreads")
       => amb.ctx.numthreads = Self(t).a.nthreads_new
    /\ OnlyCall(t, "blosc_set_compressor")
       => amb.ctx.compcode = blosc_compname_to_compcode(Self(t).a.compname)

\* C25: in every sequence of calls of the non-contextual API the global
\* context is never read or written while the library is uninitialised
\* (before the first blosc_init, after blosc_destroy): an entry point called
\* then initialises the library before it touches the context, and what
\* blosc_set_nthreads or blosc_set_compressor set in that call is what the
\* next blosc_compress uses.
UninitialisedLibraryHandled == NoAccessWhileUninitialised /\ FirstSettingKept
----------------------------------------------------------------------------
(* Concurrent first calls of blosc_compress *)

\* the calls made so far are blosc_compress calls, one per caller, on the
\* library as the program starts
CompressCallers == {t \in Callers : Self(t).api = "blosc_compress"}
OnlyCompressCalls ==
  /\ \A t \in Callers : Self(t).api \in {"none", "blosc_compress"}
  /\ amb.calls = Cardinality(CompressCallers)
  /\ amb.uninit \subseteq {"blosc_compress"}
\* the callers between pthread_mutex_lock and pthread_mutex_unlock
InCompress == {t \in Callers : Self(t).pc \in {"c_setup", "c_job"}}

\* C26: when threads call blosc_compress concurrently on an uninitialised
\* library the lazy initialisation runs once: no call runs blosc_init after
\* another has (so the mutex and the context are not made anew while a call
\* holds or uses them), the holder of the mutex is the one call between lock
\* and unlock, and no call works on a context another call has written.
LazyInitOnce ==
  OnlyCompressCalls =>
    /\ ~amb.reinit
    /\ Cardinality(InCompress) <= 1
    /\ \A t \in InCompress : amb.mutex = t
    /\ ~amb.fault
====
